---- MODULE Spec2Model ----
(***************************************************************************)
(* Durable job scheduling engine of the HR -> directory synchroniser:      *)
(* the sql.js backed store (src/src/infra/sqlite.js), the polling          *)
(* scheduler (src/src/infra/scheduler.js, second revision in the file),    *)
(* the job executor (src/unnamed/part_008) and the webhook routes that     *)
(* enqueue jobs (src/src/api/routes.js, revision starting at line 738).    *)
(*                                                                         *)
(* Instants are milliseconds.  Job rows are kept in a sequence whose index *)
(* is the AUTOINCREMENT id.  The bookkeeping columns createdAt/updatedAt   *)
(* are not read by any code path modelled here and are left out.           *)
(***************************************************************************)
EXTENDS Integers, Sequences, FiniteSets

(* ------------------------------ bounds -------------------------------- *)

\* rows the store may hold in the full specification
MaxJobs == 2
\* clock steps (of ClockStep ms) the environment may take
MaxClockSteps == 4
\* times the data directory may become unwritable
MaxDiskFaults == 1
\* rows of the store in the specification with an unwritable directory
MaxFaultyJobs == 1
\* rows of the store in the concurrency specification
MaxConcJobs == 5
\* rows of a store file found at start-up
MaxStoredJobs == 25
\* rows of a store file holding jobs that were retried before
MaxRetriedJobs == 2
\* attempt numbers handed to computeBackoffMs on its own
MaxAttemptNo == 6
\* largest employee number the HR system or the directory reports
MaxEmployeeNo == 2

(* ------------------------- program constants -------------------------- *)

MAX_CONCURRENCY == 4
MAX_ATTEMPTS == 3
BACKOFF_BASE_MS == 15000
BACKOFF_MULT == 2
\* BACKOFF_JITTER = 0.20, as thousandths
BACKOFF_JITTER_PERMILLE == 200
MIN_BACKOFF_MS == 1000
\* the cap of the documented delay  min(base * multiplier^(n-1), cap) ;
\* the scheduler reads no such setting, five minutes stand in for it
BACKOFF_CAP_MS == 300000
\* LIMIT of the due-jobs query
BatchLimit == 20
toleranceMs == 60000
\* POSTJOIN_OFFSET_MINUTES
quickMins == 2
\* PREHIRE_OFFSET_DAYS
prehireDays == 5
\* PREHIRE_EXEC_HOUR / PREHIRE_EXEC_MIN
execHour == 14
execMin == 45
\* OFFBOARD_EXEC_HOUR / OFFBOARD_EXEC_MIN
OFF_H == 14
OFF_M == 20
\* PREHIRE_COOLDOWN_MINUTES
cooldownMin == 3
\* Asia/Kolkata is UTC+05:30 all year
ZoneOffsetMs == 19800000
DayMs == 86400000
MinuteMs == 60000

(* ------------------------------ values -------------------------------- *)

Null == "null"

\* JavaScript values that reach the routes as identifiers: a string, or a
\* number when the webhook body is JSON with an unquoted id.
StrVal(t) == [kind |-> "string", text |-> t]
NumVal(t) == [kind |-> "number", text |-> t]
Undefined == [kind |-> "undefined", text |-> ""]
NullVal == [kind |-> "null", text |-> "null"]

\* String(v)
StringOf(v) == v.text

\* !v for the identifier values above (no empty string, no 0 among them)
Falsy(v) == v.kind \in {"undefined", "null"}

\* candidate ids sent by the HR system; they contain digits only, so the
\* case folding and the wildcards of SQL LIKE never come into play
CandIds == {StrVal("7"), NumVal("7")}
EmployeeIds == {StrVal("100")}

(* --------------------------- JSON and LIKE ---------------------------- *)

\* JSON text is a sequence of tokens: a key token  "k":  followed by the
\* tokens of its value;  a string value is  " text "  (three tokens), a
\* number or null is one bare token, an undefined value drops the key.
KeyTok(k) == <<"\"", k, "\"", ":">>

JsonValue(v) ==
  IF v.kind = "string" THEN <<"\"", v.text, "\"">> ELSE <<v.text>>

JsonMember(k, v) ==
  IF v.kind = "undefined" THEN <<>> ELSE KeyTok(k) \o JsonValue(v)

\* JSON.stringify of the createFromCandidate payload (the members the
\* engine reads back: candidateId, employeeId)
StringifyCandidatePayload(id, employeeId) ==
  JsonMember("candidateId", id) \o JsonMember("employeeId", employeeId)

\* JSON.stringify of the payload the offboarding route builds:
\* {employeeId: String(employeeId).trim(), email: email || null,
\*  upn: upn || null}
StringifyOffboardPayload(employeeId, email, upn) ==
  JsonMember("employeeId", StrVal(StringOf(employeeId)))
    \o JsonMember("email", IF Falsy(email) THEN NullVal ELSE email)
    \o JsonMember("upn", IF Falsy(upn) THEN NullVal ELSE upn)

\* JSON.stringify of the disableUser / deleteUser payload
StringifyUserPayload(employeeId) ==
  JsonMember("employeeId", employeeId)

\* pat occurs in text as a contiguous run of tokens:  text LIKE '%pat%'
Contains(text, pat) ==
  \E i \in 0..(Len(text) - Len(pat)) :
    \A k \in 1..Len(pat) : text[i + k] = pat[k]

\* the pattern  %"candidateId":"<String(candidateId)>"%
CandidatePattern(candidateId) ==
  KeyTok("candidateId") \o <<"\"", StringOf(candidateId), "\"">>

\* JSON.parse(payload)[k]
JsonGet(text, k) ==
  IF ~Contains(text, KeyTok(k)) THEN Undefined
  ELSE LET i == CHOOSE i \in 0..(Len(text) - 4) :
                  \A n \in 1..4 : text[i + n] = KeyTok(k)[n]
       IN IF text[i + 5] = "\"" THEN StrVal(text[i + 6])
          ELSE IF text[i + 5] = "null" THEN NullVal
          ELSE NumVal(text[i + 5])

(* --------------------------- dates and time --------------------------- *)

\* a "dd-LL-yyyy" text, kept as its three numbers
DateVal(dd, mm, yyyy) == [kind |-> "date", dd |-> dd, mm |-> mm, yyyy |-> yyyy]
NoDate == [kind |-> "undefined", dd |-> 0, mm |-> 0, yyyy |-> 0]

IsLeap(y) == (y % 4 = 0 /\ y % 100 # 0) \/ y % 400 = 0

DaysInMonth(m, y) ==
  IF m = 2 THEN (IF IsLeap(y) THEN 29 ELSE 28)
  ELSE IF m \in {4, 6, 9, 11} THEN 30 ELSE 31

LeapsBefore(y) == ((y - 1) \div 4) - ((y - 1) \div 100) + ((y - 1) \div 400)

RECURSIVE DaysBeforeMonth(_, _)
DaysBeforeMonth(m, y) ==
  IF m <= 1 THEN 0 ELSE DaysBeforeMonth(m - 1, y) + DaysInMonth(m - 1, y)

\* days from 01-01-1970 to the civil date
DayNumber(d) ==
  365 * (d.yyyy - 1970) + (LeapsBefore(d.yyyy) - LeapsBefore(1970))
    + DaysBeforeMonth(d.mm, d.yyyy) + (d.dd - 1)

\* DateTime.fromFormat(s, 'dd-LL-yyyy', {zone}).isValid
DateIsValid(d) ==
  /\ d.kind = "date"
  /\ d.mm \in 1..12
  /\ d.dd >= 1 /\ d.dd <= DaysInMonth(d.mm, d.yyyy)

\* parseJoinDateIST: the day number of the date, or -1 for null
NoDay == -1
parseJoinDateIST(s) == IF DateIsValid(s) THEN DayNumber(s) ELSE NoDay

\* the instant of hh:mm:00.000 business-zone time on day number day
ZoneInstant(day, hh, mi) ==
  day * DayMs + (hh * 60 + mi) * MinuteMs - ZoneOffsetMs

\* a runAt decision that also keeps a prehire instant equal to now
PrehireRunAt_AtOrAfter(joiningdate, nowMs) ==
  LET joinDay == parseJoinDateIST(joiningdate)
      prehire == ZoneInstant(joinDay - prehireDays, execHour, execMin)
  IN IF joinDay # NoDay /\ prehire >= nowMs
       THEN prehire
       ELSE nowMs + quickMins * MinuteMs

\* the runAt decision of the prehire route
PrehireRunAt(joiningdate, nowMs) ==
  LET joinDay == parseJoinDateIST(joiningdate)
      prehire == ZoneInstant(joinDay - prehireDays, execHour, execMin)
  IN IF joinDay # NoDay /\ prehire > nowMs
       THEN prehire
       ELSE nowMs + quickMins * MinuteMs

\* futureCandidate of the offboarding route, 0 for null
OffboardInstant(exitDate) ==
  LET exitDay == parseJoinDateIST(exitDate)
  IN IF exitDay = NoDay THEN 0 ELSE ZoneInstant(exitDay, OFF_H, OFF_M)

\* join dates the HR system sends: none, or one whose prehire instant lies
\* three clock steps after StartTime
DateA == DateVal(10, 1, 1970)
JoinDates == {NoDate, DateA}
\* exit dates: none, the day of StartTime (its instant has passed), the
\* day after
ExitDates == {NoDate, DateVal(5, 1, 1970), DateVal(6, 1, 1970)}

ClockStep == 60000
StartTime == ZoneInstant(DayNumber(DateA) - prehireDays, execHour, execMin) - 3 * ClockStep
MaxTime == StartTime + MaxClockSteps * ClockStep

(* ------------------------------ backoff ------------------------------- *)

RECURSIVE Pow(_, _)
Pow(b, e) == IF e <= 0 THEN 1 ELSE b * Pow(b, e - 1)

Max(a, b) == IF a >= b THEN a ELSE b
Min(a, b) == IF a <= b THEN a ELSE b
Abs(a) == IF a >= 0 THEN a ELSE 0 - a

\* Math.round of num/den (den > 0 and even), halves towards +infinity
RoundDiv(num, den) == (num + den \div 2) \div den

\* values of (Math.random() * 2 - 1), as thousandths, tried by the model
JitterSamples == {-1000, 999}

\* computeBackoffMs(attempt) for a draw u (thousandths) of the jitter
computeBackoffMs(attempt, u) ==
  LET exp == Max(0, attempt - 1)
      base == BACKOFF_BASE_MS * Pow(BACKOFF_MULT, exp)
      jitterFrac == Max(0, Min(1000, BACKOFF_JITTER_PERMILLE))
      \* base * jitterFrac * u, scaled by 10^6; base is a multiple of 1000
      jitterNum == (base \div 1000) * jitterFrac * u
  IN Max(MIN_BACKOFF_MS, RoundDiv(base * 1000 + jitterNum, 1000))

(* ------------------------------- store -------------------------------- *)

NoResult == [action |-> "none", supersededBy |-> 0]

\* an insert that replaces the table's rows by the new one
upsertJob_Overwrite(db, type, runAt, payload) ==
  [db EXCEPT !.jobs =
     <<[type |-> type, runAt |-> runAt, payload |-> payload,
        status |-> "pending", attempts |-> 0,
        lastError |-> Null, result |-> NoResult]>>]

\* an insert that counts the insertion as an attempt
upsertJob_CountsAttempt(db, type, runAt, payload) ==
  [db EXCEPT !.jobs = Append(@,
     [type |-> type, runAt |-> runAt, payload |-> payload,
      status |-> "pending", attempts |-> 1,
      lastError |-> Null, result |-> NoResult])]

\* an upsert that moves the pending row of the same type and payload
\* instead of inserting
upsertJob_Dedups(db, type, runAt, payload) ==
  LET same == {i \in DOMAIN db.jobs :
                 /\ db.jobs[i].type = type
                 /\ db.jobs[i].payload = payload
                 /\ db.jobs[i].status = "pending"}
  IN IF same = {}
       THEN [db EXCEPT !.jobs =
               Append(@, [type |-> type, runAt |-> runAt,
                          payload |-> payload, status |-> "pending",
                          attempts |-> 0, lastError |-> Null,
                          result |-> NoResult])]
       ELSE [db EXCEPT !.jobs =
               [i \in DOMAIN @ |->
                  IF i \in same THEN [@[i] EXCEPT !.runAt = runAt]
                                ELSE @[i]]]

\* INSERT INTO jobs ... ; columns not listed take their defaults
upsertJob(db, type, runAt, payload) ==
  [db EXCEPT !.jobs = Append(@,
     [type |-> type, runAt |-> runAt, payload |-> payload,
      status |-> "pending", attempts |-> 0,
      lastError |-> Null, result |-> NoResult])]

\* an update that skips object-valued fields instead of serialising them
markJob_SkipsObjects(db, id, fields) ==
  IF id \notin DOMAIN db.jobs THEN db
  ELSE [db EXCEPT !.jobs[id] =
          [k \in DOMAIN @ |->
             IF k \in DOMAIN fields /\ k # "result" THEN fields[k] ELSE @[k]]]

\* UPDATE jobs SET <fields> WHERE id = ? ; no row, no change
markJob(db, id, fields) ==
  IF id \notin DOMAIN db.jobs THEN db
  ELSE [db EXCEPT !.jobs[id] =
          [k \in DOMAIN @ |-> IF k \in DOMAIN fields THEN fields[k] ELSE @[k]]]

RECURSIVE SortByRunAt(_, _)
\* the ids of S in ascending runAt order (equal runAt: ascending rowid,
\* the order of the table and of the jobs_run_idx index)
SortByRunAt(jobs, S) ==
  IF S = {} THEN <<>>
  ELSE LET first == CHOOSE i \in S :
                      \A j \in S : \/ jobs[i].runAt < jobs[j].runAt
                                   \/ (jobs[i].runAt = jobs[j].runAt /\ i <= j)
       IN <<first>> \o SortByRunAt(jobs, S \ {first})

Take(s, n) == SubSeq(s, 1, Min(n, Len(s)))

\* the due-jobs query without its status filter
fetchDueJobs_AnyStatus(db, nowMs) ==
  Take(SortByRunAt(db.jobs,
         {i \in DOMAIN db.jobs : db.jobs[i].runAt <= nowMs}),
       BatchLimit)

\* SELECT ... WHERE status = 'pending' AND runAt <= ? ORDER BY runAt ASC
\* LIMIT 20 ; the result is the sequence of row ids
fetchDueJobs(db, nowMs) ==
  Take(SortByRunAt(db.jobs,
         {i \in DOMAIN db.jobs :
            db.jobs[i].status = "pending" /\ db.jobs[i].runAt <= nowMs}),
       BatchLimit)

CooldownKey(id) == <<"CANDIDATE_COOLDOWN_UNTIL:", StringOf(id)>>
\* the key of the employee-id sequence
SeqKey == <<"EMPLOYEE_ID_SEQ", "">>
KvKeys == {CooldownKey(c) : c \in CandIds} \cup {SeqKey}

NoValue == [present |-> FALSE, num |-> 0]

\* SELECT value FROM kv WHERE key = ?
getKV(db, key) == db.kv[key]

\* INSERT ... ON CONFLICT(key) DO UPDATE ; the value is String(value)
setKV(db, key, value) ==
  [db EXCEPT !.kv[key] = [present |-> TRUE, num |-> value]]

\* parseInt(getKV(key), 10), def when there is no number
getKVInt(db, key, def) ==
  IF getKV(db, key).present THEN getKV(db, key).num ELSE def

\* bumpKVInt(key): the store after setKV(key, cur + 1), startAt = 1
bumpKVInt(db, key) == setKV(db, key, getKVInt(db, key, 0) + 1)

\* SELECT id, runAt, status ... WHERE type = ? AND status IN
\* ('pending','running') AND payload LIKE ? ORDER BY runAt DESC LIMIT 1 ;
\* 0 when no row matches (equal runAt: the later row first)
findActiveJobByCandidate(db, type, candidateId) ==
  LET S == {i \in DOMAIN db.jobs :
              /\ db.jobs[i].type = type
              /\ db.jobs[i].status \in {"pending", "running"}
              /\ Contains(db.jobs[i].payload, CandidatePattern(candidateId))}
  IN IF S = {} THEN 0
     ELSE CHOOSE i \in S :
            \A j \in S : \/ db.jobs[i].runAt > db.jobs[j].runAt
                         \/ (db.jobs[i].runAt = db.jobs[j].runAt /\ i >= j)

(* ------------------------------- state -------------------------------- *)

VARIABLES
  now,      \* Date.now()
  db,       \* the in-memory sql.js database: [jobs, kv]
  disk,     \* the image of db last written to data/jobs.sqlite
  diskOk,   \* whether fs.writeFileSync currently succeeds
  faults,   \* how often the data directory has become unwritable
  running,  \* the scheduler's Set of job ids being executed
  exec,     \* per running job: where its runJob/executor continuation stands
  ticking,  \* the scheduler's re-entrancy flag
  http,     \* the request answered by the last step and its response
  backoff,  \* the last call of computeBackoffMs: its argument and result
  limiter,  \* the interval rate limiter's closure and the tasks it started
  offb,     \* the immediate offboarding in flight and the directory it acts on
  call      \* the axios request under the retry interceptor

vars == <<now, db, disk, diskOk, faults, running, exec, ticking, http,
          backoff, limiter, offb, call>>

\* no request has been made through the retrying axios instance
NoCall ==
  [pc |-> "idle", method |-> "", retries |-> 0, baseDelayMs |-> 0,
   maxDelayMs |-> 0, retryCount |-> 0, sends |-> 0, delay |-> 0,
   error |-> [config |-> FALSE, response |-> FALSE, status |-> 0,
              code |-> ""]]

\* computeBackoffMs has not been called on its own
NoBackoff == [attempt |-> 0, delay |-> 0]


\* the groups a user of the directory can be a member of
MaxGroups == 2
GroupIds == 1..MaxGroups

\* no immediate offboarding is in flight
NoOffboard ==
  [pc |-> "idle", enabled |-> TRUE, sessions |-> TRUE, groups |-> {},
   manager |-> FALSE, listed |-> {}, todo |-> {}, tried |-> {},
   failed |-> {},
   triedGroups |-> {}, failedGroups |-> {},
   requested |-> "", user |-> "", foundBy |-> ""]

\* the closure of a limiter that is not in use
NoLimiter ==
  [rate |-> 0, jitterMs |-> 0, last |-> 0, sleeping |-> <<>>, starts |-> <<>>]

\* no response: the last step was not a request
NoHttp ==
  [status |-> 0, message |-> "", candidateId |-> Undefined,
   jobId |-> 0, retryAfterMs |-> 0, runAt |-> 0]

\* res.status(status).json({message, candidateId, jobId, retryAfterMs,
\* runAt}); members a response does not carry are Undefined / 0
Response(status, message, candidateId, jobId, retryAfterMs, runAt) ==
  [status |-> status, message |-> message, candidateId |-> candidateId,
   jobId |-> jobId, retryAfterMs |-> retryAfterMs, runAt |-> runAt]

EmptyDb == [jobs |-> <<>>, kv |-> [k \in KvKeys |-> NoValue]]

\* a persist() that never reaches the file
persist_NoWrite(newDb) == disk

\* persist(): db.export() written to the file, unless the write throws
persist(newDb) == IF diskOk THEN newDb ELSE disk

Init ==
  /\ now = StartTime
  /\ db = EmptyDb
  /\ disk = EmptyDb
  /\ diskOk = TRUE
  /\ faults = 0
  /\ running = {}
  /\ exec = [j \in {} |-> 0]
  /\ ticking = FALSE
  /\ http = NoHttp
  /\ backoff = NoBackoff
  /\ limiter = NoLimiter
  /\ offb = NoOffboard
  /\ call = NoCall

(* ---------------------------- environment ----------------------------- *)

AdvanceClock ==
  /\ now' = now + ClockStep
  /\ http' = NoHttp
  /\ UNCHANGED <<db, disk, diskOk, faults, running, exec, ticking, backoff, limiter, offb, call>>

\* the data directory becomes unwritable (disk full, permissions)
DiskFails ==
  /\ diskOk
  /\ diskOk' = FALSE
  /\ faults' = faults + 1
  /\ http' = NoHttp
  /\ UNCHANGED <<now, db, disk, running, exec, ticking, backoff, limiter, offb, call>>

DiskRecovers ==
  /\ ~diskOk
  /\ diskOk' = TRUE
  /\ http' = NoHttp
  /\ UNCHANGED <<now, db, disk, faults, running, exec, ticking, backoff, limiter, offb, call>>

\* the process dies and is started again: initSQLite() opens the file and
\* finds both tables; ensureKvTable's persist() rewrites what was read and
\* throws when the directory is unwritable, so that bootstrap ends there.
\* Handlers in flight are gone with the process.  The tick that
\* tickRunner() starts right away is the action Tick.
CrashAndInit ==
  /\ diskOk
  /\ db' = disk
  /\ disk' = persist(disk)
  /\ running' = {}
  /\ exec' = [j \in {} |-> 0]
  /\ ticking' = FALSE
  /\ http' = NoHttp
  /\ UNCHANGED <<now, diskOk, faults, backoff, limiter, offb, call>>

(* ------------------------------- routes ------------------------------- *)

StoreErrText == "EIO: write failed"

\* a cooldown lookup that reads a key no handler writes
cooldownUntil_WrongKey(d, id) == 0

\* until = untilStr ? Number(untilStr) : 0  for the candidate's marker
cooldownUntil(d, id) ==
  LET untilStr == getKV(d, CooldownKey(id))
  IN IF untilStr.present THEN untilStr.num ELSE 0

\* POST /zoho-candidate/edit, up to and including upsertJob (no await in
\* between, so the store sees it as one step)
\* a route that looks for the active job first and answers the cooldown
\* after having cancelled it
PrehireTrigger_CancelsInCooldown(id, firstname, lastname, joiningdate) ==
  LET until == cooldownUntil(db, id)
      runAt == PrehireRunAt(joiningdate, now)
      existing == findActiveJobByCandidate(db, "createFromCandidate", id)
      outside ==
        existing # 0 /\ Abs(db.jobs[existing].runAt - runAt) > toleranceMs
      superseded ==
        IF outside
          THEN markJob(db, existing,
                 [status |-> "cancelled",
                  lastError |-> "superseded by new schedule",
                  result |-> [action |-> "none", supersededBy |-> runAt]])
          ELSE db
      inserted == upsertJob(superseded, "createFromCandidate", runAt,
                            StringifyCandidatePayload(id, Undefined))
  IN /\ IF Falsy(id) \/ Falsy(firstname) \/ Falsy(lastname)
          THEN /\ http' = Response(400,
                     "Missing firstname, lastname, or candidate ID",
                     Undefined, 0, 0, 0)
               /\ UNCHANGED <<db, disk>>
        ELSE IF until # 0 /\ now < until
          THEN /\ http' = Response(200, "cooldown_active", id,
                                   0, until - now, 0)
               /\ db' = superseded
               /\ disk' = persist(superseded)
        ELSE IF existing # 0 /\ ~outside
          THEN /\ http' = Response(200, "already_scheduled", Undefined,
                                   existing, 0, db.jobs[existing].runAt)
               /\ UNCHANGED <<db, disk>>
        ELSE /\ db' = inserted
             /\ disk' = persist(inserted)
             /\ http' = Response(200, "scheduled", Undefined,
                                 Len(inserted.jobs), 0, runAt)
     /\ UNCHANGED <<now, diskOk, faults, running, exec, ticking, backoff, limiter, offb, call>>

PrehireTrigger(id, firstname, lastname, joiningdate) ==
  LET until == cooldownUntil(db, id)
      runAt == PrehireRunAt(joiningdate, now)
      existing == findActiveJobByCandidate(db, "createFromCandidate", id)
      outside ==
        existing # 0 /\ Abs(db.jobs[existing].runAt - runAt) > toleranceMs
      superseded ==
        IF outside
          THEN markJob(db, existing,
                 [status |-> "cancelled",
                  lastError |-> "superseded by new schedule",
                  result |-> [action |-> "none", supersededBy |-> runAt]])
          ELSE db
      inserted == upsertJob(superseded, "createFromCandidate", runAt,
                            StringifyCandidatePayload(id, Undefined))
  IN /\ IF Falsy(id) \/ Falsy(firstname) \/ Falsy(lastname)
          THEN /\ http' = Response(400,
                     "Missing firstname, lastname, or candidate ID",
                     Undefined, 0, 0, 0)
               /\ UNCHANGED <<db, disk>>
        ELSE IF until # 0 /\ now < until
          THEN /\ http' = Response(200, "cooldown_active", id,
                                   0, until - now, 0)
               /\ UNCHANGED <<db, disk>>
        ELSE IF existing # 0 /\ ~outside
          THEN /\ http' = Response(200, "already_scheduled", Undefined,
                                   existing, 0, db.jobs[existing].runAt)
               /\ UNCHANGED <<db, disk>>
        ELSE IF existing # 0 /\ ~diskOk
          \* markJob updated the row, then persist() threw
          THEN /\ db' = superseded
               /\ disk' = disk
               /\ http' = Response(500, "Failed to process webhook",
                                   Undefined, 0, 0, 0)
        ELSE /\ db' = inserted
             /\ disk' = persist(inserted)
             /\ http' = IF diskOk
                          THEN Response(200, "scheduled", Undefined,
                                        Len(inserted.jobs), 0, runAt)
                          ELSE Response(500, "Failed to process webhook",
                                        Undefined, 0, 0, 0)
     /\ UNCHANGED <<now, diskOk, faults, running, exec, ticking, backoff, limiter, offb, call>>

\* a directory user as a lookup returns it (String(user.employeeId ?? '')),
\* and the null of a lookup that finds nobody
DirUser(e) == [found |-> TRUE, employeeId |-> e]
NoUser == [found |-> FALSE, employeeId |-> ""]
DirectoryUsers == {NoUser, DirUser("100"), DirUser("200"), DirUser("")}

\* what the directory answers to one request: found tells what
\* findByEmployeeId comes to (a user with that employeeId, its memberships
\* and manager; no user; or getAzureAccessToken throwing), byEmail and
\* byUpn what findByEmail and findUserByUPN would return
DirectoryLookups ==
  [found : {"user"}, groups : SUBSET GroupIds, manager : BOOLEAN,
   byEmail : {NoUser}, byUpn : {NoUser}]
    \cup [found : {"none", "throws"}, groups : {{}}, manager : {FALSE},
          byEmail : {NoUser}, byUpn : {NoUser}]

\* the answers in which the fallbacks by email and UPN find somebody
FallbackLookups ==
  [found : {"user", "none"}, groups : {{}}, manager : {FALSE},
   byEmail : DirectoryUsers, byUpn : DirectoryUsers]

\* a resolution that takes the first user any lookup returns
offboardResolve_FirstHit(employeeId, email, upn, look) ==
  IF look.found = "user"
    THEN [status |-> 0, foundBy |-> "employeeId",
          employeeId |-> StringOf(employeeId)]
  ELSE IF ~Falsy(email) /\ look.byEmail.found
    THEN [status |-> 0, foundBy |-> "email",
          employeeId |-> look.byEmail.employeeId]
  ELSE IF ~Falsy(upn) /\ look.byUpn.found
    THEN [status |-> 0, foundBy |-> "upn",
          employeeId |-> look.byUpn.employeeId]
  ELSE [status |-> 404, foundBy |-> "", employeeId |-> ""]

\* the user the immediate branch settles on: strictly by employeeId, by
\* email or UPN only when that user's employeeId is the request's; then the
\* 404 and 409 checks.  status 0: go on with this user.
offboardResolve(employeeId, email, upn, look) ==
  LET wanted == StringOf(employeeId)
      byEid == IF look.found = "user" THEN DirUser(wanted) ELSE NoUser
      byEmail == IF ~byEid.found /\ ~Falsy(email) /\ look.byEmail.found
                      /\ look.byEmail.employeeId = wanted
                   THEN look.byEmail ELSE NoUser
      byUpn == IF ~byEid.found /\ ~byEmail.found /\ ~Falsy(upn)
                    /\ look.byUpn.found /\ look.byUpn.employeeId = wanted
                 THEN look.byUpn ELSE NoUser
      user == IF byEid.found THEN byEid
              ELSE IF byEmail.found THEN byEmail ELSE byUpn
      foundBy == IF byEid.found THEN "employeeId"
                 ELSE IF byEmail.found THEN "email+eid"
                 ELSE IF byUpn.found THEN "upn+eid" ELSE ""
  IN IF ~user.found
       THEN [status |-> 404, foundBy |-> "", employeeId |-> ""]
     ELSE IF foundBy # "employeeId" /\ user.employeeId # wanted
       THEN [status |-> 409, foundBy |-> foundBy,
             employeeId |-> user.employeeId]
     ELSE [status |-> 0, foundBy |-> foundBy, employeeId |-> user.employeeId]

\* a route that validates nothing
offboardRejects_Never(employeeId) == FALSE

\* if (!employeeId) return res.status(400)
offboardRejects(employeeId) == Falsy(employeeId)

\* POST /zoho-webhook/delete: validation, the scheduled branch, and the
\* immediate branch up to the user it is to disable
OffboardTrigger(employeeId, email, upn, exitDate, look) ==
  LET futureCandidate == OffboardInstant(exitDate)
      inserted == upsertJob(db, "disableUser", futureCandidate,
                            StringifyOffboardPayload(employeeId, email, upn))
      hit == offboardResolve(employeeId, email, upn, look)
  IN /\ IF offboardRejects(employeeId)
          THEN /\ http' = Response(400, "employeeId is required",
                                   Undefined, 0, 0, 0)
               /\ UNCHANGED <<db, disk, offb>>
        ELSE IF futureCandidate = 0 \/ futureCandidate <= now
          THEN /\ offb.pc \in {"idle", "done"}
               /\ UNCHANGED <<db, disk>>
               /\ IF look.found = "throws"
                    THEN /\ http' = Response(500, "Internal Server Error",
                                             Undefined, 0, 0, 0)
                         /\ UNCHANGED offb
                  ELSE IF hit.status = 404
                    THEN /\ http' = Response(404,
                                "Azure user not found with matching employeeId",
                                Undefined, 0, 0, 0)
                         /\ UNCHANGED offb
                  ELSE IF hit.status = 409
                    THEN /\ http' = Response(409, "employeeId mismatch",
                                             Undefined, 0, 0, 0)
                         /\ UNCHANGED offb
                  ELSE /\ http' = NoHttp
                       /\ offb' = [NoOffboard EXCEPT
                                     !.pc = "revoke",
                                     !.groups = look.groups,
                                     !.manager = look.manager,
                                     !.requested = StringOf(employeeId),
                                     !.user = hit.employeeId,
                                     !.foundBy = hit.foundBy]
        ELSE /\ db' = inserted
             /\ disk' = persist(inserted)
             /\ UNCHANGED offb
             /\ http' = IF diskOk
                          THEN Response(200, "scheduled", Undefined,
                                        0, 0, futureCandidate)
                          ELSE Response(500, "Internal Server Error",
                                        Undefined, 0, 0, 0)
     /\ UNCHANGED <<now, diskOk, faults, running, exec, ticking, backoff,
                    limiter, call>>

\* a handler that gives up the cleanup when the membership listing fails
OffboardAfterListing_GivesUp(ok, groups) ==
  IF ~ok THEN "respond" ELSE IF groups = {} THEN "manager" ELSE "group"

\* where the immediate branch goes after GET memberOf: into the loop over
\* the groups listed, or on to the manager when there are none or the
\* listing failed
OffboardAfterListing(ok, groups) ==
  IF ok /\ groups # {} THEN "group" ELSE "manager"

\* one awaited directory call of the immediate branch and what follows it;
\* ok tells whether the call succeeds
OffboardStep(ok) ==
  LET called(step) == [offb EXCEPT
                         !.tried = @ \cup {step},
                         !.failed = IF ok THEN @ ELSE @ \cup {step}]
      g == CHOOSE x \in offb.todo : \A y \in offb.todo : x <= y
  IN /\ offb.pc \notin {"idle", "done"}
     /\ CASE offb.pc = "revoke" ->
               \* try { await revokeUserSessions } catch { log.warn }
               /\ offb' = [called("revoke") EXCEPT
                             !.sessions = ~ok, !.pc = "disable"]
               /\ UNCHANGED http
          [] offb.pc = "disable" ->
               \* await updateUser(accountEnabled: false), the outer catch
               IF ok
                 THEN /\ offb' = [called("disable") EXCEPT
                                    !.enabled = FALSE, !.pc = "list"]
                      /\ UNCHANGED http
                 ELSE /\ offb' = [called("disable") EXCEPT !.pc = "done"]
                      /\ http' = Response(502, "Disable failed",
                                          Undefined, 0, 0, 0)
          [] offb.pc = "list" ->
               \* GET users/{id}/memberOf
               /\ offb' = [called("list") EXCEPT
                             !.listed = IF ok THEN offb.groups ELSE {},
                             !.todo = IF ok THEN offb.groups ELSE {},
                             !.pc = OffboardAfterListing(ok, offb.groups)]
               /\ UNCHANGED http
          [] offb.pc = "group" ->
               \* for (const g of groups) try { DELETE members/$ref } catch
               /\ offb' = [offb EXCEPT
                             !.triedGroups = @ \cup {g},
                             !.failedGroups = IF ok THEN @ ELSE @ \cup {g},
                             !.groups = IF ok THEN @ \ {g} ELSE @,
                             !.todo = @ \ {g},
                             !.pc = IF offb.todo = {g} THEN "manager"
                                                       ELSE "group"]
               /\ UNCHANGED http
          [] offb.pc = "manager" ->
               \* try { DELETE users/{id}/manager/$ref } catch { log.warn }
               /\ offb' = [called("manager") EXCEPT
                             !.manager = IF ok THEN FALSE ELSE @,
                             !.pc = "respond"]
               /\ UNCHANGED http
          [] offb.pc = "respond" ->
               \* the verifying reads, caught whatever they do, and res.json
               /\ offb' = [offb EXCEPT !.pc = "done"]
               /\ http' = Response(200, "deleted", Undefined, 0, 0, 0)
     /\ UNCHANGED <<now, db, disk, diskOk, faults, running, exec, ticking,
                    backoff, limiter, call>>

\* OFFBOARD_OFFSET_MINUTES of the alternate entry server.js
serverQuickMins == 1

\* JSON.stringify of the payload server.js builds: upn and email absent
StringifyServerPayload(employeeId) ==
  JsonMember("upn", NullVal) \o JsonMember("email", NullVal)
    \o JsonMember("employeeId", IF Falsy(employeeId) THEN NullVal
                                                      ELSE employeeId)

\* POST /zoho-webhook/delete of the alternate entry server.js: it always
\* schedules, a minute from now when the exit date is missing or has passed
ServerOffboardTrigger(employeeId, exitDate) ==
  LET candidate == OffboardInstant(exitDate)
      runAt == IF candidate = 0 \/ candidate <= now
                 THEN now + serverQuickMins * MinuteMs
                 ELSE candidate
      inserted == upsertJob(db, "disableUser", runAt,
                            StringifyServerPayload(employeeId))
  IN /\ db' = inserted
     /\ disk' = persist(inserted)
     /\ http' = IF diskOk
                  THEN Response(200, "scheduled", Undefined,
                                Len(inserted.jobs), 0, runAt)
                  ELSE Response(500, "Internal Server Error",
                                Undefined, 0, 0, 0)
     /\ UNCHANGED <<now, diskOk, faults, running, exec, ticking, backoff, limiter, offb, call>>

\* a row entering through the store's exported upsertJob, due at once;
\* the routes enqueue neither deleteUser nor a type the executor does not
\* know, and a disableUser row of theirs falls due a day or more later
EnqueueTypes == {"disableUser", "deleteUser", "purge"}

EnqueueJob(type, employeeId) ==
  LET inserted == upsertJob(db, type, now, StringifyUserPayload(employeeId))
  IN /\ db' = inserted
     /\ disk' = persist(inserted)
     /\ http' = NoHttp
     /\ UNCHANGED <<now, diskOk, faults, running, exec, ticking, backoff, limiter, offb, call>>

(* ------------------------------ executor ------------------------------ *)

\* String(job.type || '').trim().toLowerCase()
LowerType(type) ==
  CASE type = "createFromCandidate" -> "createfromcandidate"
    [] type = "disableUser" -> "disableuser"
    [] type = "deleteUser" -> "deleteuser"
    [] OTHER -> type

\* the branch of executor() a job type takes
HandlerOf(type) ==
  LET t == LowerType(type)
  IN IF t \in {"create", "createfromcandidate"} THEN "create"
     ELSE IF t = "deleteuser" THEN "delete"
     ELSE IF t = "disableuser" THEN "disable"
     ELSE "unknown"

\* how the external calls of a handler can end
Outcomes(handler) ==
  CASE handler = "create" -> {"already_exists", "created", "error"}
    [] handler = "delete" -> {"notfound", "deleted", "error"}
    [] handler = "disable" -> {"notfound", "disabled", "error"}
    [] OTHER -> {"unknown"}

cooldownMs == Max(0, cooldownMin) * 60 * 1000

\* The last, synchronous stretch of executor(job), from the return of its
\* last directory/HR call to its next await or return.  ok tells whether
\* persist() succeeds; every markJob below changes the in-memory row first
\* and throws afterwards when it does not.  Yields the database and
\* whether the promise returned by executor() is rejected.
executor(d, id, outcome, nowMs, ok) ==
  LET job == d.jobs[id]
      handler == HandlerOf(job.type)
      candidateId == JsonGet(job.payload, "candidateId")
      failedBy(dd, text) ==
        markJob(dd, id, [status |-> "failed", lastError |-> text])
      \* a throwing markJob inside try { } lands in the handler's catch,
      \* whose own markJob throws in turn and rejects the promise
      caught(dd) ==
        IF ok THEN [db |-> dd, rejected |-> FALSE]
        ELSE [db |-> failedBy(dd, StoreErrText), rejected |-> TRUE]
  IN CASE handler = "create" /\ outcome \in {"already_exists", "created"} ->
            LET cooled == IF ~Falsy(candidateId)
                            THEN setKV(d, CooldownKey(candidateId),
                                       nowMs + cooldownMs)
                            ELSE d
            IN caught(markJob(cooled, id,
                 [status |-> "done",
                  result |-> [action |-> outcome, supersededBy |-> 0]]))
       [] handler = "create" /\ outcome = "error" ->
            [db |-> failedBy(d, "create failed"), rejected |-> ~ok]
       [] handler \in {"delete", "disable"} /\ outcome = "notfound" ->
            caught(failedBy(d, IF handler = "delete"
                                 THEN "User not found for delete"
                                 ELSE "User not found for disable"))
       [] handler \in {"delete", "disable"}
            /\ outcome \in {"deleted", "disabled"} ->
            caught(markJob(d, id, [status |-> "done"]))
       [] handler \in {"delete", "disable"} /\ outcome = "error" ->
            [db |-> failedBy(d, "directory call failed"), rejected |-> ~ok]
       [] OTHER ->
            [db |-> failedBy(d, "Unknown job type"), rejected |-> ~ok]

(* ------------------------------ scheduler ----------------------------- *)

\* a catch branch that gives up at once
runJobCatch_NoRetry(d, id, attemptsNew, nowMs, u) ==
  markJob(d, id, [status |-> "failed", lastError |-> StoreErrText])

\* a catch branch that starts the count of attempts afresh on a retry
runJobCatch_ResetsAttempts(d, id, attemptsNew, nowMs, u) ==
  IF attemptsNew < MAX_ATTEMPTS
    THEN markJob(d, id,
           [status |-> "pending",
            runAt |-> nowMs + computeBackoffMs(attemptsNew, u),
            lastError |-> StoreErrText,
            attempts |-> 0])
    ELSE markJob(d, id, [status |-> "failed", lastError |-> StoreErrText])

\* a catch branch that makes the job due again at once
runJobCatch_DueAtOnce(d, id, attemptsNew, nowMs, u) ==
  IF attemptsNew < MAX_ATTEMPTS
    THEN markJob(d, id,
           [status |-> "pending",
            runAt |-> 0,
            lastError |-> StoreErrText,
            attempts |-> attemptsNew])
    ELSE markJob(d, id, [status |-> "failed", lastError |-> StoreErrText])

\* the catch branch of runJob
runJobCatch(d, id, attemptsNew, nowMs, u) ==
  IF attemptsNew < MAX_ATTEMPTS
    THEN markJob(d, id,
           [status |-> "pending",
            runAt |-> nowMs + computeBackoffMs(attemptsNew, u),
            lastError |-> StoreErrText,
            attempts |-> attemptsNew])
    ELSE markJob(d, id, [status |-> "failed", lastError |-> StoreErrText])

\* the statements of runJob after  await executor(job)  settles
runJobSettle(d, id, rejected, attemptsNew, nowMs, u) ==
  IF rejected THEN runJobCatch(d, id, attemptsNew, nowMs, u)
  ELSE markJob(d, id, [status |-> "done"])

RECURSIVE TickLoop_OffByOne(_, _, _, _)
\* the loop with the ceiling tested by > instead of >=
TickLoop_OffByOne(due, i, run, started) ==
  IF i > Len(due) THEN started
  ELSE IF Cardinality(run) > MAX_CONCURRENCY THEN started
  ELSE IF due[i] \in run THEN TickLoop_OffByOne(due, i + 1, run, started)
  ELSE TickLoop_OffByOne(due, i + 1, run \cup {due[i]},
                         Append(started, due[i]))

RECURSIVE TickLoop_OneAtATime(_, _, _, _)
\* the loop stopping as soon as any handler is in flight
TickLoop_OneAtATime(due, i, run, started) ==
  IF i > Len(due) THEN started
  ELSE IF Cardinality(run) >= 1 THEN started
  ELSE IF due[i] \in run THEN TickLoop_OneAtATime(due, i + 1, run, started)
  ELSE TickLoop_OneAtATime(due, i + 1, run \cup {due[i]},
                           Append(started, due[i]))

RECURSIVE TickLoop_NoHasGuard(_, _, _, _)
\* the loop without  if (running.has(job.id)) continue
TickLoop_NoHasGuard(due, i, run, started) ==
  IF i > Len(due) THEN started
  ELSE IF Cardinality(run) >= MAX_CONCURRENCY THEN started
  ELSE TickLoop_NoHasGuard(due, i + 1, run \cup {due[i]},
                           Append(started, due[i]))

RECURSIVE TickLoop(_, _, _, _)
\* the for loop of tick(): the ids handed to runJob, in order
TickLoop(due, i, run, started) ==
  IF i > Len(due) THEN started
  ELSE IF Cardinality(run) >= MAX_CONCURRENCY THEN started
  ELSE IF due[i] \in run THEN TickLoop(due, i + 1, run, started)
  ELSE TickLoop(due, i + 1, run \cup {due[i]}, Append(started, due[i]))

Range(s) == {s[i] : i \in DOMAIN s}

\* a running mark that leaves the attempt counter alone
runJobMark_KeepsAttempts(d, id, attemptsNew) ==
  markJob(d, id, [status |-> "running", lastError |-> Null])

\* safeMark(job.id, {status: 'running', attempts: attemptsNew,
\* lastError: null}): the first statement of runJob
runJobMark(d, id, attemptsNew) ==
  markJob(d, id, [status |-> "running", attempts |-> attemptsNew,
                  lastError |-> Null])

RECURSIVE Dispatch(_, _, _, _, _, _)
\* runJob for started[i..]: mark running, start the executor; a job of
\* unknown type runs to its end before the first await, and runJob's
\* continuation follows it before any other callback can run
Dispatch(d, started, i, nowMs, ok, u) ==
  IF i > Len(started) THEN d
  ELSE LET id == started[i]
           attemptsNew == d.jobs[id].attempts + 1
           marked == runJobMark(d, id, attemptsNew)
           after ==
             IF HandlerOf(d.jobs[id].type) = "unknown"
               THEN LET r == executor(marked, id, "unknown", nowMs, ok)
                    IN runJobSettle(r.db, id, r.rejected, attemptsNew, nowMs, u)
               ELSE marked
       IN Dispatch(after, started, i + 1, nowMs, ok, u)

\* one run of tick()
Tick ==
  /\ ~ticking
  /\ LET due == fetchDueJobs(db, now)
         started == TickLoop(due, 1, running, <<>>)
         async == {id \in Range(started) :
                     HandlerOf(db.jobs[id].type) # "unknown"}
     IN \E u \in JitterSamples :
          /\ db' = Dispatch(db, started, 1, now, diskOk, u)
          /\ disk' = IF started = <<>> THEN disk ELSE persist(db')
          /\ running' = running \cup async
          /\ exec' = [j \in running \cup async |->
                        IF j \in running THEN exec[j]
                        ELSE [pc |-> "executing", outcome |-> "",
                              attemptsNew |-> db.jobs[j].attempts + 1,
                              employeeId |-> 0, user |-> NoUser]]
  /\ ticking' = FALSE
  /\ http' = NoHttp
  /\ UNCHANGED <<now, diskOk, faults, backoff, limiter, offb, call>>

\* one run of tick() during which every statement on the database throws
\* before it changes a row: safeMark swallows the error of the running
\* mark, the handlers start all the same, and a job of unknown type runs
\* through executor and runJob's catch without leaving a trace
TickMarkFails ==
  /\ ~ticking
  /\ LET due == fetchDueJobs(db, now)
         started == TickLoop(due, 1, running, <<>>)
         async == {id \in Range(started) :
                     HandlerOf(db.jobs[id].type) # "unknown"}
     IN /\ running' = running \cup async
        /\ exec' = [j \in running \cup async |->
                      IF j \in running THEN exec[j]
                      ELSE [pc |-> "executing", outcome |-> "",
                            attemptsNew |-> db.jobs[j].attempts + 1,
                              employeeId |-> 0, user |-> NoUser]]
  /\ ticking' = FALSE
  /\ http' = NoHttp
  /\ UNCHANGED <<now, db, disk, diskOk, faults, backoff, limiter, offb, call>>

\* what a source of employee numbers answers when it fails or has none
NoNumber == 0 - 1

\* effectiveEmployeeId after the three sources were tried in turn; 0 when
\* none gave a number
generatedEmployeeId(d, zohoLast, graphNext) ==
  IF zohoLast # NoNumber THEN zohoLast + 1
  ELSE IF getKVInt(d, SeqKey, 0) > 0 THEN getKVInt(d, SeqKey, 0) + 1
  ELSE IF graphNext # NoNumber THEN graphNext
  ELSE 0

\* the employee-id stretch of the create handler for a job without an
\* employeeId: the HR system's last id plus one, else the bumped cached
\* sequence, else the directory scan's next id; each setKV sits in a try
\* whose catch only logs.  zohoLast and graphNext are what the two
\* external systems answer.
EmployeeIdStep(id, zohoLast, graphNext) ==
  /\ id \in running
  /\ exec[id].pc = "executing"
  /\ exec[id].outcome = ""
  /\ HandlerOf(db.jobs[id].type) = "create"
  /\ Falsy(JsonGet(db.jobs[id].payload, "employeeId"))
  /\ LET prev == getKVInt(db, SeqKey, 0)
     IN db' = IF zohoLast # NoNumber
                THEN setKV(db, SeqKey, zohoLast + 1)
              ELSE IF prev > 0
                THEN bumpKVInt(db, SeqKey)
              ELSE IF graphNext # NoNumber
                THEN setKV(db, SeqKey, graphNext)
              ELSE db
  /\ disk' = persist(db')
  /\ exec' = [exec EXCEPT
                ![id].outcome = "employeeId",
                ![id].employeeId =
                  generatedEmployeeId(db, zohoLast, graphNext)]
  /\ http' = NoHttp
  /\ UNCHANGED <<now, diskOk, faults, running, ticking, backoff, limiter, offb, call>>

\* the handler of running job id finishes its external calls with the
\* given outcome and runs to its next await (the notification mail) or,
\* when the store throws, into runJob's catch
ExecutorFinish(id, outcome) ==
  /\ id \in running
  /\ exec[id].pc = "executing"
  /\ outcome \in Outcomes(HandlerOf(db.jobs[id].type))
  /\ LET r == executor(db, id, outcome, now, diskOk)
     IN IF r.rejected
          THEN \E u \in JitterSamples :
                 /\ db' = runJobCatch(r.db, id, exec[id].attemptsNew, now, u)
                 /\ running' = running \ {id}
                 /\ exec' = [j \in running \ {id} |-> exec[j]]
          ELSE /\ db' = r.db
               /\ running' = running
               /\ exec' = [exec EXCEPT ![id].pc = "mail",
                                       ![id].outcome = outcome]
  /\ disk' = persist(db')
  /\ http' = NoHttp
  /\ UNCHANGED <<now, diskOk, faults, ticking, backoff, limiter, offb, call>>

\* runJob's completion without  running.delete(job.id)
RunJobSettle_KeepsSlot(id) ==
  /\ id \in running
  /\ exec[id].pc = "mail"
  /\ db' = runJobSettle(db, id, FALSE, exec[id].attemptsNew, now, 0)
  /\ disk' = persist(db')
  /\ running' = running
  /\ exec' = [exec EXCEPT ![id].pc = "settled"]
  /\ http' = NoHttp
  /\ UNCHANGED <<now, diskOk, faults, ticking, backoff, limiter, offb, call>>

\* the mail is out, executor() returns, runJob marks the job and the
\* slot is released
RunJobSettle(id) ==
  /\ id \in running
  /\ exec[id].pc = "mail"
  /\ db' = runJobSettle(db, id, FALSE, exec[id].attemptsNew, now, 0)
  /\ disk' = persist(db')
  /\ running' = running \ {id}
  /\ exec' = [j \in running \ {id} |-> exec[j]]
  /\ http' = NoHttp
  /\ UNCHANGED <<now, diskOk, faults, ticking, backoff, limiter, offb, call>>

\* the user the disableUser handler settles on: by employeeId, else by
\* email, else by UPN, whichever lookup answers first
disableResolve(employeeId, email, upn, look) ==
  LET byEid == IF ~Falsy(employeeId) /\ look.found = "user"
                 THEN DirUser(StringOf(employeeId)) ELSE NoUser
  IN IF byEid.found THEN byEid
     ELSE IF ~Falsy(email) /\ look.byEmail.found THEN look.byEmail
     ELSE IF ~Falsy(upn) /\ look.byUpn.found THEN look.byUpn
     ELSE NoUser

\* the disableUser handler up to the user it is to disable
DisableResolveStep(id, look) ==
  /\ id \in running
  /\ exec[id].pc = "executing"
  /\ exec[id].outcome = ""
  /\ HandlerOf(db.jobs[id].type) = "disable"
  /\ exec' = [exec EXCEPT
                ![id].outcome = "resolved",
                ![id].user =
                  disableResolve(JsonGet(db.jobs[id].payload, "employeeId"),
                                 JsonGet(db.jobs[id].payload, "email"),
                                 JsonGet(db.jobs[id].payload, "upn"), look)]
  /\ http' = NoHttp
  /\ UNCHANGED <<now, db, disk, diskOk, faults, running, ticking, backoff,
                 limiter, offb, call>>

(* --------------------------- specification ---------------------------- *)

AllOutcomes ==
  {"already_exists", "created", "deleted", "disabled", "notfound", "error"}

\* the environment's steps, kept within the bounds
Clock == AdvanceClock /\ now' <= MaxTime
PrehireRequests ==
  {<<id, StrVal("Asha"), StrVal("Rao"), jd>> : id \in CandIds, jd \in JoinDates}
    \cup {<<Undefined, StrVal("Asha"), StrVal("Rao"), NoDate>>,
          <<StrVal("7"), Undefined, StrVal("Rao"), NoDate>>,
          <<StrVal("7"), StrVal("Asha"), Undefined, NoDate>>}
Prehire ==
  /\ \E r \in PrehireRequests : PrehireTrigger(r[1], r[2], r[3], r[4])
  /\ Len(db'.jobs) <= MaxJobs
Offboard ==
  /\ \E e \in EmployeeIds \cup {Undefined}, xd \in ExitDates,
        u \in DirectoryLookups :
        OffboardTrigger(e, Undefined, Undefined, xd, u)
  /\ Len(db'.jobs) <= MaxJobs
OffboardNow == \E ok \in BOOLEAN : OffboardStep(ok)
Finish == \E id \in running, o \in AllOutcomes : ExecutorFinish(id, o)
Settle == \E id \in running : RunJobSettle(id)

\* webhooks, scheduler and handlers over a writable data directory
Next ==
  \/ Clock
  \/ Prehire
  \/ Tick
  \/ Finish
  \/ Settle

Spec == Init /\ [][Next]_vars

\* the offboarding webhook with scheduler and handlers
NextOffboard ==
  \/ Clock
  \/ Offboard
  \/ Tick
  \/ Finish
  \/ Settle

SpecOffboard == Init /\ [][NextOffboard]_vars

\* the offboarding webhook and the directory calls of its immediate branch
NextOffboardNow ==
  \/ Clock
  \/ Offboard
  \/ OffboardNow

SpecOffboardNow == Init /\ [][NextOffboardNow]_vars

ServerOffboard ==
  /\ \E e \in EmployeeIds, xd \in ExitDates : ServerOffboardTrigger(e, xd)
  /\ Len(db'.jobs) <= MaxJobs

\* the offboarding webhook of server.js over an opened store, with
\* scheduler and handlers
NextServer ==
  \/ Clock
  \/ ServerOffboard
  \/ Tick
  \/ Finish
  \/ Settle

SpecServer == Init /\ [][NextServer]_vars

Fault == DiskFails /\ faults' <= MaxDiskFaults
Enqueue ==
  /\ \E t \in EnqueueTypes, e \in EmployeeIds : EnqueueJob(t, e)
  /\ Len(db'.jobs) <= MaxFaultyJobs

\* scheduler and handlers over rows that are due when they are enqueued
\* and a data directory that may become unwritable
NextFaulty ==
  \/ Clock
  \/ Enqueue
  \/ Fault
  \/ DiskRecovers
  \/ Tick
  \/ Finish
  \/ Settle

SpecFaulty == Init /\ [][NextFaulty]_vars

EnqueueMany ==
  /\ \E t \in {"disableUser", "purge"}, e \in EmployeeIds : EnqueueJob(t, e)
  /\ Len(db'.jobs) <= MaxConcJobs
FinishDisabled == \E id \in running : ExecutorFinish(id, "disabled")

\* more due rows than the scheduler may run at once
NextConc ==
  \/ EnqueueMany
  \/ Tick
  \/ TickMarkFails
  \/ FinishDisabled
  \/ Settle

SpecConc == Init /\ [][NextConc]_vars

\* the same without store errors
NextConcFair ==
  \/ EnqueueMany
  \/ Tick
  \/ FinishDisabled
  \/ Settle

\* ENABLED <<Tick>>_vars: a run of tick() changes the state exactly when it
\* hands a job to runJob (or clears the last response)
TickCanAct ==
  /\ ~ticking
  /\ \/ http # NoHttp
     \/ TickLoop(fetchDueJobs(db, now), 1, running, <<>>) # <<>>

\* weak fairness of Tick, WF_vars(Tick), with its ENABLED written out
TickFairness == []<>(~TickCanAct) \/ []<><<Tick>>_vars

\* the interval timer fires for ever and every directory call and mail of
\* a handler comes to an end
SpecConcFair ==
  /\ Init /\ [][NextConcFair]_vars
  /\ TickFairness
  /\ WF_vars(FinishDisabled)
  /\ WF_vars(Settle)

\* A store file left by earlier runs: n rows whose runAt follows the stride
\* a, so that rows are out of runAt order; the first c rows carry the
\* statuses other than pending, the rest are pending.
Statuses == <<"pending", "running", "done", "failed", "cancelled">>
StoredRow(i, a, c) ==
  [type |-> "disableUser",
   runAt |-> StartTime + ((i * a) % 3) * ClockStep,
   payload |-> StringifyUserPayload(StrVal("100")),
   status |-> IF i <= c THEN Statuses[i + 1] ELSE "pending",
   attempts |-> 0, lastError |-> Null, result |-> NoResult]

InitStored ==
  /\ now = StartTime
  /\ \E n \in 0..MaxStoredJobs, a \in 0..2, c \in 0..4 :
       db = [jobs |-> [i \in 1..n |-> StoredRow(i, a, c)],
             kv |-> [k \in KvKeys |-> NoValue]]
  /\ disk = db
  /\ diskOk = TRUE
  /\ faults = 0
  /\ running = {}
  /\ exec = [j \in {} |-> 0]
  /\ ticking = FALSE
  /\ http = NoHttp
  /\ backoff = NoBackoff
  /\ limiter = NoLimiter
  /\ offb = NoOffboard
  /\ call = NoCall

\* upsertJob called on a store that holds rows of every status and a
\* value of the employee-id sequence
MaxUpsertRows == 3

InitUpsert ==
  /\ now = StartTime
  /\ \E n \in 0..(MaxUpsertRows - 1), c \in 0..4, s \in 0..MaxEmployeeNo :
       db = [jobs |-> [i \in 1..n |-> StoredRow(i + c, 1, 4)],
             kv |-> IF s = 0 THEN EmptyDb.kv
                             ELSE setKV(EmptyDb, SeqKey, s).kv]
  /\ disk = db
  /\ diskOk = TRUE
  /\ faults = 0
  /\ running = {}
  /\ exec = [j \in {} |-> 0]
  /\ ticking = FALSE
  /\ http = NoHttp
  /\ backoff = NoBackoff
  /\ limiter = NoLimiter
  /\ offb = NoOffboard
  /\ call = NoCall

\* upsertJob({type, runAt, payload}) with its persist()
UpsertJobCall(type, runAt, employeeId) ==
  /\ db' = upsertJob(db, type, runAt, StringifyUserPayload(employeeId))
  /\ disk' = persist(db')
  /\ http' = NoHttp
  /\ UNCHANGED <<now, diskOk, faults, running, exec, ticking, backoff,
                 limiter, offb, call>>

UpsertRunAts == {now - ClockStep, now, now + ClockStep}

Upsert ==
  /\ \E t \in EnqueueTypes, r \in UpsertRunAts, e \in EmployeeIds :
       UpsertJobCall(t, r, e)
  /\ Len(db'.jobs) <= MaxUpsertRows

NextUpsert ==
  \/ Upsert
  \/ Fault
  \/ DiskRecovers

SpecUpsert == InitUpsert /\ [][NextUpsert]_vars

\* the scheduler started on such a file, no handler finishing yet
NextStored ==
  \/ Clock
  \/ Tick

SpecStored == InitStored /\ [][NextStored]_vars

\* A store file left by a run in which jobs were rescheduled: n due rows,
\* of a known and of an unknown type in turn (t tells which comes first),
\* every second one (a = 1) already tried twice.
RetriedRow(i, t, a) ==
  [type |-> IF (i + t) % 2 = 0 THEN "disableUser" ELSE "purge",
   runAt |-> StartTime,
   payload |-> StringifyUserPayload(StrVal("100")),
   status |-> "pending",
   attempts |-> IF (i * a) % 2 = 1 THEN MAX_ATTEMPTS - 1 ELSE 0,
   lastError |-> IF (i * a) % 2 = 1 THEN StoreErrText ELSE Null,
   result |-> NoResult]

InitRetried ==
  /\ now = StartTime
  /\ \E n \in 0..MaxRetriedJobs, t \in 0..1, a \in 0..1 :
       db = [jobs |-> [i \in 1..n |-> RetriedRow(i, t, a)],
             kv |-> [k \in KvKeys |-> NoValue]]
  /\ disk = db
  /\ diskOk = TRUE
  /\ faults = 0
  /\ running = {}
  /\ exec = [j \in {} |-> 0]
  /\ ticking = FALSE
  /\ http = NoHttp
  /\ backoff = NoBackoff
  /\ limiter = NoLimiter
  /\ offb = NoOffboard
  /\ call = NoCall

\* scheduler and handlers on such a file, the data directory failing
NextRetried ==
  \/ Fault
  \/ DiskRecovers
  \/ Tick
  \/ Finish
  \/ Settle

SpecRetried == InitRetried /\ [][NextRetried]_vars

PrehirePlain ==
  /\ \E id \in CandIds :
        PrehireTrigger(id, StrVal("Asha"), StrVal("Rao"), NoDate)
  /\ Len(db'.jobs) <= MaxJobs

EmployeeId ==
  \E id \in running, zohoLast \in {NoNumber} \cup 0..MaxEmployeeNo,
     graphNext \in {NoNumber} \cup 1..(MaxEmployeeNo + 1) :
    EmployeeIdStep(id, zohoLast, graphNext)

\* create jobs whose handlers work out an employee id
NextEmployeeId ==
  \/ Clock
  \/ PrehirePlain
  \/ Tick
  \/ EmployeeId
  \/ Finish
  \/ Settle

SpecEmployeeId == Init /\ [][NextEmployeeId]_vars

PrehireAgain ==
  /\ \E id \in CandIds :
        PrehireTrigger(id, StrVal("Asha"), StrVal("Rao"), NoDate)
  /\ Len(db'.jobs) <= MaxJobs + 1

\* triggers without a join date that keep coming as time passes, each
\* superseding the job of the one before, also when the data directory
\* has become unwritable
NextSupersede ==
  \/ Clock
  \/ PrehireAgain
  \/ Fault

SpecSupersede == Init /\ [][NextSupersede]_vars

PrehireQuick ==
  /\ \E id \in CandIds :
        PrehireTrigger(id, StrVal("Asha"), StrVal("Rao"), NoDate)
  /\ Len(db'.jobs) <= MaxFaultyJobs

\* the prehire webhook, scheduler and handlers while the data directory
\* may become unwritable
NextPrehireFaulty ==
  \/ Clock
  \/ PrehireQuick
  \/ Fault
  \/ Tick
  \/ Finish
  \/ Settle

SpecPrehireFaulty == Init /\ [][NextPrehireFaulty]_vars

PrehireTwice ==
  /\ \E id \in CandIds :
        PrehireTrigger(id, StrVal("Asha"), StrVal("Rao"), NoDate)
  /\ Len(db'.jobs) <= MaxFaultyJobs + 1
FinishCreated == \E id \in running : ExecutorFinish(id, "created")

\* the prehire webhook superseding a schedule, scheduler and handlers,
\* while the data directory may become unwritable
NextLifecycle ==
  \/ Clock
  \/ PrehireTwice
  \/ Fault
  \/ Tick
  \/ FinishCreated
  \/ Settle

SpecLifecycle == Init /\ [][NextLifecycle]_vars

\* webhook, scheduler and handlers of a process that may be restarted
\* and may lose its data directory
NextRestart ==
  \/ Clock
  \/ PrehireQuick
  \/ Fault
  \/ Tick
  \/ Finish
  \/ Settle
  \/ CrashAndInit

SpecRestart == Init /\ [][NextRestart]_vars

\* join dates of every kind: none, no such day, no such month, one whose
\* prehire instant lies in the year before, DateA, the day after DateA
JoinDatesWide ==
  {NoDate, DateVal(29, 2, 1970), DateVal(10, 13, 1970), DateVal(1, 1, 1970),
   DateA, DateVal(11, 1, 1970)}

PrehireDated ==
  /\ \E id \in CandIds, jd \in JoinDatesWide :
        PrehireTrigger(id, StrVal("Asha"), StrVal("Rao"), jd)
  /\ Len(db'.jobs) <= MaxJobs

\* the prehire webhook alone, as the clock passes DateA's prehire instant
NextPrehireDates ==
  \/ Clock
  \/ PrehireDated

SpecPrehireDates == Init /\ [][NextPrehireDates]_vars

\* draws of (Math.random() * 2 - 1), as thousandths, for the delay alone
BackoffDraws == {100 * k - 1000 : k \in 0..19} \cup {999}

\* computeBackoffMs called for an attempt number of its own choosing, as a
\* larger SCHED_MAX_ATTEMPTS lets runJob do
InitBackoff ==
  /\ now = StartTime
  /\ db = EmptyDb
  /\ disk = EmptyDb
  /\ diskOk = TRUE
  /\ faults = 0
  /\ running = {}
  /\ exec = [j \in {} |-> 0]
  /\ ticking = FALSE
  /\ http = NoHttp
  /\ \E n \in 1..MaxAttemptNo : backoff = [attempt |-> n, delay |-> 0]
  /\ limiter = NoLimiter
  /\ offb = NoOffboard
  /\ call = NoCall

ComputeBackoff ==
  /\ backoff.attempt >= 1
  /\ \E u \in BackoffDraws :
       backoff' = [backoff EXCEPT
                     !.delay = computeBackoffMs(backoff.attempt, u)]
  /\ UNCHANGED <<now, db, disk, diskOk, faults, running, exec, ticking, http,
                 limiter, offb, call>>

NextBackoff == ComputeBackoff

SpecBackoff == InitBackoff /\ [][NextBackoff]_vars

TypeOK ==
  /\ now >= StartTime
  /\ faults \in 0..MaxDiskFaults
  /\ diskOk \in BOOLEAN
  /\ ticking = FALSE
  /\ running \subseteq DOMAIN db.jobs
  /\ DOMAIN exec = running

(* ------------------------------- claims ------------------------------- *)

Terminal == {"done", "failed", "cancelled"}
Active == {"pending", "running"}

\* the request carries what the prehire route requires
ValidPrehire(r) == ~Falsy(r[1]) /\ ~Falsy(r[2]) /\ ~Falsy(r[3])

\* the createFromCandidate rows of candidate id that are pending or running
ActiveFor(d, id) ==
  {i \in DOMAIN d.jobs :
     /\ d.jobs[i].type = "createFromCandidate"
     /\ d.jobs[i].status \in Active
     /\ JsonGet(d.jobs[i].payload, "candidateId") = id}

CooldownActive(d, id, nowMs) ==
  d.kv[CooldownKey(id)].present /\ nowMs < d.kv[CooldownKey(id)].num

\* job id leaves the running set in this step
Released(id) == id \in running /\ id \notin running'

\* C1: once a job is done, failed or cancelled, no step gives it another
\* status.
C1_TerminalIsFinal ==
  [][\A i \in DOMAIN db.jobs :
       db.jobs[i].status \in Terminal
         => db'.jobs[i].status = db.jobs[i].status]_vars

\* C2: a prehire trigger for a candidate that has an active
\* createFromCandidate job whose runAt is within the tolerance of the newly
\* computed runAt answers already_scheduled with that job's id, inserts no
\* row, and leaves the candidate with exactly one active job.
C2_IdempotentScheduling ==
  [][\A r \in PrehireRequests :
       ( /\ ValidPrehire(r)
         /\ PrehireTrigger(r[1], r[2], r[3], r[4])
         /\ ~CooldownActive(db, r[1], now)
         /\ \E j \in ActiveFor(db, r[1]) :
              Abs(db.jobs[j].runAt - PrehireRunAt(r[4], now)) <= toleranceMs )
       => ( /\ http'.message = "already_scheduled"
            /\ http'.jobId \in ActiveFor(db, r[1])
            /\ Len(db'.jobs) = Len(db.jobs)
            /\ Cardinality(ActiveFor(db', r[1])) = 1 )]_vars

\* C3: a prehire trigger for a candidate whose active job has a runAt more
\* than the tolerance away from the newly computed one turns exactly one
\* existing row to cancelled, appends exactly one pending row, and changes
\* no other row.
C3_SupersedeExactlyOne ==
  [][\A r \in PrehireRequests :
       ( /\ ValidPrehire(r)
         /\ PrehireTrigger(r[1], r[2], r[3], r[4])
         /\ ~CooldownActive(db, r[1], now)
         /\ ActiveFor(db, r[1]) # {}
         /\ \A j \in ActiveFor(db, r[1]) :
              Abs(db.jobs[j].runAt - PrehireRunAt(r[4], now)) > toleranceMs )
       => ( /\ Len(db'.jobs) = Len(db.jobs) + 1
            /\ db'.jobs[Len(db'.jobs)].status = "pending"
            /\ db'.jobs[Len(db'.jobs)].runAt = PrehireRunAt(r[4], now)
            /\ \E k \in ActiveFor(db, r[1]) :
                 /\ db'.jobs[k].status = "cancelled"
                 /\ \A j \in DOMAIN db.jobs \ {k} :
                      db'.jobs[j] = db.jobs[j] )]_vars

\* C4: a prehire trigger for candidate c arriving while now is before the
\* stored CANDIDATE_COOLDOWN_UNTIL:c changes neither a job row nor a KV
\* entry and answers cooldown_active with the remaining time.
C4_CooldownSuppresses ==
  [][\A r \in PrehireRequests :
       ( /\ ValidPrehire(r)
         /\ PrehireTrigger(r[1], r[2], r[3], r[4])
         /\ CooldownActive(db, r[1], now) )
       => ( /\ db' = db
            /\ http'.status = 200
            /\ http'.message = "cooldown_active"
            /\ http'.candidateId = r[1]
            /\ http'.retryAfterMs = db.kv[CooldownKey(r[1])].num - now )]_vars

\* a trigger has been answered cooldown_active while the candidate had no
\* active job, so that without the cooldown it would have inserted a row
C4_Witness ==
  /\ http.message = "cooldown_active"
  /\ http.retryAfterMs > 0
  /\ ActiveFor(db, http.candidateId) = {}
  /\ Len(db.jobs) < MaxJobs

\* C5: when a handler ends in a transient error on an attempt below
\* MAX_ATTEMPTS, the job is pending again once the attempt has settled,
\* with lastError set and runAt later than the failure.
C5_TransientErrorRetries ==
  [][\A id \in running :
       ( /\ Released(id)
         /\ \/ exec[id].pc = "mail" /\ exec[id].outcome = "error"
            \/ exec[id].pc = "executing" /\ ExecutorFinish(id, "error")
         /\ exec[id].attemptsNew < MAX_ATTEMPTS )
       => ( /\ db'.jobs[id].status = "pending"
            /\ db'.jobs[id].lastError # Null
            /\ db'.jobs[id].runAt > now )]_vars

\* C6: no row's attempts exceeds MAX_ATTEMPTS; a job whose handler fails on
\* the attempt that makes attempts equal MAX_ATTEMPTS is failed, with
\* lastError set, once that attempt has settled; a failed job is not among
\* the due jobs.
C6_AttemptsBounded ==
  [][/\ \A i \in DOMAIN db'.jobs : db'.jobs[i].attempts <= MAX_ATTEMPTS
     /\ \A id \in running :
          ( /\ Released(id)
            /\ \/ exec[id].pc = "mail" /\ exec[id].outcome \in {"error", "notfound"}
               \/ exec[id].pc = "executing"
            /\ exec[id].attemptsNew = MAX_ATTEMPTS )
          => ( /\ db'.jobs[id].status = "failed"
               /\ db'.jobs[id].lastError # Null )
     /\ \A i \in DOMAIN db'.jobs :
          db'.jobs[i].status = "failed"
            => i \notin Range(fetchDueJobs(db', now'))]_vars

\* C7: when a disableUser or deleteUser handler finds no directory user,
\* the job is failed once the attempt has settled, whatever its attempts.
C7_NotFoundIsFailed ==
  [][\A id \in running :
       ( /\ Released(id)
         /\ HandlerOf(db.jobs[id].type) \in {"disable", "delete"}
         /\ \/ exec[id].pc = "mail" /\ exec[id].outcome = "notfound"
            \/ exec[id].pc = "executing" /\ ExecutorFinish(id, "notfound") )
       => db'.jobs[id].status = "failed"]_vars

\* C8: a job of a type the executor does not know is, once dispatched,
\* failed with a lastError naming the unknown type, after one attempt.
C8_UnknownTypeFails ==
  \A i \in DOMAIN db.jobs :
    (HandlerOf(db.jobs[i].type) = "unknown" /\ db.jobs[i].attempts > 0)
      => ( /\ db.jobs[i].status = "failed"
           /\ db.jobs[i].lastError = "Unknown job type"
           /\ db.jobs[i].attempts = 1 )

\* C9: fetchDueJobs(now) returns only pending rows with runAt <= now, each
\* once, in ascending runAt order, and at most BatchLimit of them.
C9_FetchDueJobs ==
  LET due == fetchDueJobs(db, now)
  IN /\ Len(due) <= BatchLimit
     /\ \A k \in DOMAIN due :
          /\ due[k] \in DOMAIN db.jobs
          /\ db.jobs[due[k]].status = "pending"
          /\ db.jobs[due[k]].runAt <= now
     /\ \A k, m \in DOMAIN due :
          k < m => /\ due[k] # due[m]
                   /\ db.jobs[due[k]].runAt <= db.jobs[due[m]].runAt

\* the query is cut off at the limit, leaves rows of other statuses and a
\* pending row out, and its result is not in table order
C9_Witness ==
  LET due == fetchDueJobs(db, now)
  IN /\ Len(due) = BatchLimit
     /\ \E i \in DOMAIN db.jobs :
          /\ db.jobs[i].status = "pending" /\ db.jobs[i].runAt <= now
          /\ i \notin Range(due)
     /\ \E i \in DOMAIN db.jobs : db.jobs[i].status = "running"
     /\ \E k \in 1..(Len(due) - 1) : due[k] > due[k + 1]

\* C10: the running set never holds more than MAX_CONCURRENCY job ids.
C10_ConcurrencyCeiling == Cardinality(running) <= MAX_CONCURRENCY

\* the ceiling is reached while a due pending job waits
C10_Witness ==
  /\ Cardinality(running) = MAX_CONCURRENCY
  /\ \E i \in DOMAIN db.jobs :
       db.jobs[i].status = "pending" /\ db.jobs[i].runAt <= now

\* C11: while a job id is in the running set (its handler in flight) no
\* step marks its row running again, changes its attempts or replaces its
\* invocation, whether or not the row still reads pending.
C11_NoDuplicateDispatch ==
  [][\A id \in running :
       id \in running'
         => /\ db'.jobs[id].attempts = db.jobs[id].attempts
            /\ exec'[id].attemptsNew = exec[id].attemptsNew
            /\ (db'.jobs[id].status = "running"
                  => db.jobs[id].status = "running")]_vars

\* a job is in flight while its row is still pending and due, and another
\* job has been marked running
C11_Witness ==
  \E id \in running :
    /\ db.jobs[id].status = "pending"
    /\ db.jobs[id].runAt <= now
    /\ \E j \in running : db.jobs[j].status = "running"

\* job i is pending and due, not in flight, and the running set is full
Skipped(i) ==
  /\ i \in DOMAIN db.jobs
  /\ db.jobs[i].status = "pending"
  /\ db.jobs[i].runAt <= now
  /\ i \notin running
  /\ Cardinality(running) >= MAX_CONCURRENCY

\* job i has been handed to runJob
Dispatched(i) ==
  /\ i \in DOMAIN db.jobs
  /\ (i \in running \/ db.jobs[i].status # "pending")

\* C12: a due pending job left out of a tick because the running set was
\* full is changed by nothing but a tick, and is dispatched later, given
\* that ticks keep firing and handlers settle.
C12_SkippedIsDispatchedLater ==
  /\ [][\A i \in DOMAIN db.jobs :
          (db.jobs[i].status = "pending" /\ i \notin running)
            => (db'.jobs[i] = db.jobs[i] \/ Tick)]_vars
  /\ \A i \in 1..MaxConcJobs : Skipped(i) ~> Dispatched(i)

\* a due pending job waits behind a full running set
C12_Witness == \E i \in 1..MaxConcJobs : Skipped(i)

\* the due pending rows whose handler is not in flight
IdleDue == {i \in DOMAIN db.jobs :
              /\ db.jobs[i].status = "pending"
              /\ db.jobs[i].runAt <= now
              /\ i \notin running}

\* C13: the ticking flag is false after every step; while fewer than
\* MAX_CONCURRENCY handlers are in flight and a due job is idle, a tick can
\* act; and every tick dispatches as many idle due jobs as there are free
\* slots (the table holding fewer rows than the batch limit).
C13_TickNotBlocked ==
  /\ [](~ticking)
  /\ []((Cardinality(running) < MAX_CONCURRENCY /\ IdleDue # {})
          => TickCanAct)
  /\ [][Tick =>
          Cardinality({i \in IdleDue :
                         i \in running' \/ db'.jobs[i] # db.jobs[i]})
            = Min(Cardinality(IdleDue),
                  Max(0, MAX_CONCURRENCY - Cardinality(running)))]_vars

\* two handlers started by different ticks are in flight, below the ceiling
C13_Witness ==
  /\ Cardinality(running) < MAX_CONCURRENCY
  /\ \E i, j \in running :
       /\ db.jobs[i].attempts > 0
       /\ db.jobs[j].attempts = 0
       /\ db.jobs[j].status = "pending"

\* C14: a handler whose promise is rejected (the store throws inside it)
\* leaves exactly its own row changed, pending with a later runAt when the
\* attempt is below MAX_ATTEMPTS and failed otherwise, with lastError set
\* and its slot released; a tick in which a handler fails before its first
\* await still dispatches every idle due job a slot is free for, and that
\* handler's job is rescheduled or failed in the same way.
C14_FailureIsContained ==
  [][/\ \A id \in running :
          ( /\ exec[id].pc = "executing"
            /\ ~diskOk
            /\ \E o \in AllOutcomes : ExecutorFinish(id, o) )
          => ( /\ id \notin running'
               /\ db'.jobs[id].status =
                    IF exec[id].attemptsNew < MAX_ATTEMPTS
                      THEN "pending" ELSE "failed"
               /\ db'.jobs[id].status = "pending"
                    => /\ db'.jobs[id].runAt > now
                       /\ db'.jobs[id].attempts = exec[id].attemptsNew
               /\ db'.jobs[id].lastError # Null
               /\ \A j \in DOMAIN db.jobs \ {id} : db'.jobs[j] = db.jobs[j]
               /\ running' = running \ {id} )
     /\ (Tick /\ ~diskOk)
          => /\ Cardinality({i \in IdleDue :
                               i \in running' \/ db'.jobs[i] # db.jobs[i]})
                  = Min(Cardinality(IdleDue),
                        Max(0, MAX_CONCURRENCY - Cardinality(running)))
             /\ \A i \in IdleDue :
                  (HandlerOf(db.jobs[i].type) = "unknown"
                     /\ db'.jobs[i] # db.jobs[i])
                  => /\ i \notin running'
                     /\ db'.jobs[i].lastError # Null
                     /\ db'.jobs[i].status =
                          IF db.jobs[i].attempts + 1 < MAX_ATTEMPTS
                            THEN "pending" ELSE "failed"]_vars

\* one tick has rescheduled a job whose handler threw at once and started
\* the handler of another, and a third attempt has ended in failed
C14_Witness ==
  /\ \E i, j \in DOMAIN db.jobs :
       /\ HandlerOf(db.jobs[i].type) = "unknown"
       /\ db.jobs[i].status = "pending"
       /\ db.jobs[i].attempts = 1
       /\ db.jobs[i].runAt > now
       /\ i # j
       /\ db.jobs[j].status = "failed"
       /\ db.jobs[j].attempts = MAX_ATTEMPTS
       /\ db.jobs[j].lastError = StoreErrText
  /\ running = {}

\* C15: the delay computed for attempt n is at least MIN_BACKOFF_MS and at
\* most the cap, and the delay without jitter does not decrease from
\* attempt n - 1 to attempt n.
C15_BackoffBounded ==
  backoff.delay # 0
    => /\ backoff.delay >= MIN_BACKOFF_MS
       /\ backoff.delay <= BACKOFF_CAP_MS
       /\ backoff.attempt > 1
            => computeBackoffMs(backoff.attempt - 1, 0)
                 <= computeBackoffMs(backoff.attempt, 0)

\* (joinDate - 5 days) at 14:45 Asia/Kolkata as epoch milliseconds, worked
\* out by hand for the join dates that parse
PrehireInstantOf(jd) ==
  CASE jd = DateVal(1, 1, 1970) -> 0 - 398700000    \* 27-12-1969 09:15 UTC
    [] jd = DateVal(10, 1, 1970) -> 378900000       \* 05-01-1970 09:15 UTC
    [] jd = DateVal(11, 1, 1970) -> 465300000       \* 06-01-1970 09:15 UTC

ParsingJoinDates ==
  {DateVal(1, 1, 1970), DateVal(10, 1, 1970), DateVal(11, 1, 1970)}

\* C16: a row inserted by a prehire trigger runs at the prehire instant of
\* its join date when the date parses and the instant is strictly after
\* now, and two minutes after now in every other case.
C16_PrehireRunAt ==
  [][\A id \in CandIds, jd \in JoinDatesWide :
       ( /\ PrehireTrigger(id, StrVal("Asha"), StrVal("Rao"), jd)
         /\ Len(db'.jobs) = Len(db.jobs) + 1 )
         => db'.jobs[Len(db'.jobs)].runAt =
              IF jd \in ParsingJoinDates /\ PrehireInstantOf(jd) > now
                THEN PrehireInstantOf(jd)
                ELSE now + 120000]_vars

\* a row scheduled at DateA's prehire instant, and a row inserted when the
\* clock stood exactly at that instant and scheduled two minutes later
C16_Witness ==
  /\ now = 378900000
  /\ \E i, j \in DOMAIN db.jobs :
       /\ db.jobs[i].runAt = 378900000
       /\ db.jobs[j].runAt = 378900000 + 120000

\* the exit date at 14:20 Asia/Kolkata as epoch milliseconds, worked out by
\* hand for the exit dates that parse
OffboardInstantOf(xd) ==
  CASE xd = DateVal(5, 1, 1970) -> 377400000    \* 05-01-1970 08:50 UTC
    [] xd = DateVal(6, 1, 1970) -> 463800000    \* 06-01-1970 08:50 UTC

ParsingExitDates == {DateVal(5, 1, 1970), DateVal(6, 1, 1970)}

C18_CancelledOnlyFromPending ==
  [][\A i \in DOMAIN db.jobs :
       (db'.jobs[i].status = "cancelled" /\ db.jobs[i].status # "cancelled")
         => (db.jobs[i].status = "pending" /\ i \notin running)]_vars

\* C19: when the handler of a createFromCandidate job with a candidate id
\* marks the job done, the candidate's cooldown marker holds the time of
\* completion plus the cooldown; a handler run that does not end in done
\* leaves every cooldown marker as it was.
C19_CooldownOnlyWithDone ==
  [][\A id \in running, o \in AllOutcomes :
       ( /\ ExecutorFinish(id, o)
         /\ db.jobs[id].type = "createFromCandidate" )
         => LET candidateId == JsonGet(db.jobs[id].payload, "candidateId")
            IN IF db'.jobs[id].status = "done"
                 THEN ~Falsy(candidateId)
                        => getKV(db', CooldownKey(candidateId))
                             = [present |-> TRUE, num |-> now + 180000]
                 ELSE db'.kv = db.kv]_vars

\* C20: a step whose store calls return (the directory is writable) leaves
\* the file equal to the in-memory database; after a crash initSQLite
\* brings back every job and every KV entry of the file with the same
\* values.
C20_DurableAfterReturn ==
  [][ /\ (diskOk /\ db' # db /\ ~CrashAndInit) => disk' = db'
      /\ CrashAndInit
           => /\ DOMAIN db'.jobs = DOMAIN disk.jobs
              /\ \A i \in DOMAIN disk.jobs : db'.jobs[i] = disk.jobs[i]
              /\ \A k \in KvKeys : getKV(db', k) = getKV(disk, k)
              /\ disk' = disk ]_vars

\* a restarted process: a row committed as running has come back while no
\* handler is in flight, next to a committed cooldown marker or a second row
C20_Witness ==
  /\ db = disk
  /\ running = {}
  /\ \E i \in DOMAIN db.jobs :
       /\ db.jobs[i].status = "running"
       /\ db.jobs[i].attempts = 1


\* C21: a row that was running when the process died is handed out by
\* fetchDueJobs again once the process has been started anew.
C21_RunningIsRetriedAfterRestart ==
  [][CrashAndInit
       => \A i \in DOMAIN disk.jobs :
            disk.jobs[i].status = "running"
              => i \in Range(fetchDueJobs(db', now'))]_vars


\* C22: no step removes a job row or turns it into another job, and the id
\* a trigger gets back from upsertJob is none of the ids in the store
\* before.
C22_RowsOnlyGrow ==
  [][ /\ DOMAIN db.jobs \subseteq DOMAIN db'.jobs
      /\ \A i \in DOMAIN db.jobs :
           /\ db'.jobs[i].type = db.jobs[i].type
           /\ db'.jobs[i].payload = db.jobs[i].payload
      /\ (http'.message = "scheduled" /\ http'.status = 200)
           => /\ http'.jobId \notin DOMAIN db.jobs
              /\ http'.jobId \in DOMAIN db'.jobs ]_vars

\* a second row was inserted after the first one had been superseded
C22_Witness ==
  /\ Len(db.jobs) = 2
  /\ db.jobs[1].status = "cancelled"
  /\ http.message = "scheduled"
  /\ http.jobId = 2


\* C23: the number stored under EMPLOYEE_ID_SEQ never decreases.
C23_SequenceNeverDecreases ==
  [][getKVInt(db', SeqKey, 0) >= getKVInt(db, SeqKey, 0)]_vars


\* C24: the lastError of a superseded row tells the runAt of the job that
\* replaced it: rows superseded in favour of different instants carry
\* different lastError texts.
C24_LastErrorTellsNewRunAt ==
  \A i, j \in DOMAIN db.jobs :
    ( /\ db.jobs[i].status = "cancelled"
      /\ db.jobs[j].status = "cancelled"
      /\ db.jobs[i].result.supersededBy # db.jobs[j].result.supersededBy )
      => db.jobs[i].lastError # db.jobs[j].lastError


\* C24 as amended: a row that becomes cancelled carries the fixed text
\* 'superseded by new schedule' in lastError and, in result, the runAt
\* worked out for the new schedule (two minutes from now for a trigger
\* without a join date); when the store can be written that is the runAt
\* of the row inserted in the same step.
C24_ResultTellsNewRunAt ==
  [][\A i \in DOMAIN db.jobs :
       (db'.jobs[i].status = "cancelled" /\ db.jobs[i].status # "cancelled")
         => /\ db'.jobs[i].lastError = "superseded by new schedule"
            /\ db'.jobs[i].result.supersededBy = now + 120000
            /\ db'.jobs[i].runAt = db.jobs[i].runAt
            /\ diskOk => /\ Len(db'.jobs) = Len(db.jobs) + 1
                         /\ db'.jobs[Len(db'.jobs)].runAt = now + 120000]_vars

\* a superseded row next to the row that replaced it
C24_Witness ==
  \E i \in DOMAIN db.jobs :
    /\ db.jobs[i].status = "cancelled"
    /\ i + 1 \in DOMAIN db.jobs
    /\ db.jobs[i + 1].status = "pending"
    /\ db.jobs[i].result.supersededBy = db.jobs[i + 1].runAt


(***************************************************************************)
(* The interval rate limiter (src/infra/rateLimit.js).  Times are whole    *)
(* milliseconds and the rates divide 60000, so 60000 / rate and            *)
(* Math.round(w) are exact; Math.random is a draw of the rounded delta.    *)
(***************************************************************************)
MaxLimiterCalls == 3
MaxLimiterTime == 6

\* values of perMinute and of opts.jitterMs
LimiterRates == {20000, 30000}
LimiterJitters == {0, 1}

\* Math.round((Math.random() * 2 - 1) * j)
JitterDraws(j) == (0 - j)..j

\* jittered(waitMs, jitterMs), delta being the draw
jittered(waitMs, jitterMs, delta) ==
  IF waitMs <= 0 THEN 0
  ELSE LET j == Max(0, jitterMs) IN
       IF j = 0 THEN Max(0, waitMs)
       ELSE Max(0, waitMs + delta)

\* makeRateLimiter(perMinute, {jitterMs}) in interval mode: let last = 0
makeRateLimiter(perMinute, jitterMs) ==
  [rate |-> perMinute, jitterMs |-> Max(0, jitterMs), last |-> 0,
   sleeping |-> <<>>, starts |-> <<>>]

\* const interval = 60000 / rate
LimiterInterval == 60000 \div limiter.rate

InitLimiter ==
  /\ now = StartTime
  /\ db = EmptyDb
  /\ disk = EmptyDb
  /\ diskOk = TRUE
  /\ faults = 0
  /\ running = {}
  /\ exec = [j \in {} |-> 0]
  /\ ticking = FALSE
  /\ http = NoHttp
  /\ backoff = NoBackoff
  /\ \E r \in LimiterRates, j \in LimiterJitters :
       limiter = makeRateLimiter(r, j)
  /\ offb = NoOffboard
  /\ call = NoCall

\* run(fn) up to its await: the slot is reserved, fn starts at once when
\* there is nothing to wait for
LimiterRun ==
  /\ Len(limiter.starts) + Len(limiter.sleeping) < MaxLimiterCalls
  /\ \E delta \in JitterDraws(limiter.jitterMs) :
       LET baseWait == Max(0, limiter.last + LimiterInterval - now)
           wait == jittered(baseWait, limiter.jitterMs, delta)
       IN limiter' =
            IF wait = 0
            THEN [limiter EXCEPT !.last = now + baseWait,
                                 !.starts = Append(@, now)]
            ELSE [limiter EXCEPT !.last = now + baseWait,
                                 !.sleeping = Append(@, now + wait)]
  /\ UNCHANGED <<now, db, disk, diskOk, faults, running, exec, ticking, http,
                 backoff, offb, call>>

\* the timer of sleep(wait) fires and run() goes on to fn()
LimiterWake ==
  /\ \E k \in 1..Len(limiter.sleeping) :
       /\ limiter.sleeping[k] <= now
       /\ \A m \in 1..Len(limiter.sleeping) :
            limiter.sleeping[m] >= limiter.sleeping[k]
       /\ limiter' =
            [limiter EXCEPT
               !.sleeping = [n \in 1..(Len(@) - 1) |->
                               IF n < k THEN @[n] ELSE @[n + 1]],
               !.starts = Append(@, now)]
  /\ UNCHANGED <<now, db, disk, diskOk, faults, running, exec, ticking, http,
                 backoff, offb, call>>

\* a millisecond passes; timers that are due fire first
LimiterClock ==
  /\ now < StartTime + MaxLimiterTime
  /\ \A k \in 1..Len(limiter.sleeping) : limiter.sleeping[k] > now
  /\ now' = now + 1
  /\ UNCHANGED <<db, disk, diskOk, faults, running, exec, ticking, http,
                 backoff, limiter, offb, call>>

NextLimiter == LimiterRun \/ LimiterWake \/ LimiterClock

SpecLimiter == InitLimiter /\ [][NextLimiter]_vars

\* C25: in the interval rate limiter the start times of any two consecutive
\* tasks are at least 60000/perMinute ms apart, also with jitterMs > 0
C25_StartsAreSpaced ==
  \A k \in 1..(Len(limiter.starts) - 1) :
    (limiter.starts[k + 1] - limiter.starts[k]) * limiter.rate >= 60000

StartedNow == Range(TickLoop(fetchDueJobs(db, now), 1, running, <<>>))

C28_AttemptsNeverDecrease ==
  [][\A i \in DOMAIN db.jobs :
       /\ i \in DOMAIN db'.jobs
       /\ db'.jobs[i].attempts >= db.jobs[i].attempts]_vars

\* a row was dispatched, rescheduled after its handler failed, and then
\* superseded by a new trigger for its candidate
C28_Witness ==
  \E i \in DOMAIN db.jobs :
    /\ db.jobs[i].status = "cancelled"
    /\ db.jobs[i].attempts >= 1
    /\ db.jobs[i].lastError = "superseded by new schedule"

\* C29: the runAt of an existing row never moves to an earlier instant: only
\* a retry changes it, to an instant after now; a supersede leaves the old
\* row's runAt as it was, and the schedule the trigger answers with is that
\* of a new row.
C29_RunAtNeverEarlier ==
  [][\A i \in DOMAIN db.jobs :
       /\ i \in DOMAIN db'.jobs
       /\ db'.jobs[i].runAt >= db.jobs[i].runAt
       /\ db'.jobs[i].runAt # db.jobs[i].runAt
            => /\ db'.jobs[i].status = "pending"
               /\ db'.jobs[i].lastError = StoreErrText
               /\ db'.jobs[i].runAt > now
       /\ (db.jobs[i].status # "cancelled"
             /\ db'.jobs[i].status = "cancelled")
            => /\ db'.jobs[i].runAt = db.jobs[i].runAt
               /\ \A j \in DOMAIN db.jobs : db'.jobs[j].runAt = db.jobs[j].runAt
               /\ http'.message = "scheduled"
                    => /\ http'.jobId \in DOMAIN db'.jobs \ DOMAIN db.jobs
                       /\ db'.jobs[http'.jobId].runAt = http'.runAt
                       /\ db'.jobs[i].result.supersededBy = http'.runAt]_vars

\* a schedule was superseded by a new row, and that row has been rescheduled
\* to a later instant after its handler failed
C29_Witness ==
  \E i, j \in DOMAIN db.jobs :
    /\ db.jobs[i].status = "cancelled"
    /\ i < j
    /\ db.jobs[j].status = "pending"
    /\ db.jobs[j].lastError = StoreErrText
    /\ db.jobs[j].runAt > db.jobs[i].result.supersededBy
    /\ db.jobs[j].runAt > now

\* C30: upsertJob inserts a row with status pending, attempts 0 and the
\* given type, runAt and payload, and changes no other job row and no KV
\* entry.
C30_UpsertJobFrame ==
  [][\A t \in EnqueueTypes, r \in UpsertRunAts, e \in EmployeeIds :
       UpsertJobCall(t, r, e)
         => /\ Len(db'.jobs) = Len(db.jobs) + 1
            /\ db'.jobs[Len(db.jobs) + 1] =
                 [type |-> t, runAt |-> r,
                  payload |-> StringifyUserPayload(e),
                  status |-> "pending", attempts |-> 0,
                  lastError |-> Null, result |-> NoResult]
            /\ \A i \in DOMAIN db.jobs : db'.jobs[i] = db.jobs[i]
            /\ db'.kv = db.kv]_vars

\* a row has been inserted behind rows of other statuses while the sequence
\* held a value, and none of them changed
C30_Witness ==
  /\ Len(db.jobs) = MaxUpsertRows
  /\ db.jobs[1].status = "running"
  /\ db.jobs[2].status = "done"
  /\ db.jobs[3].status = "pending"
  /\ db.jobs[3].type = "purge"
  /\ db.jobs[3].runAt = now + ClockStep
  /\ getKVInt(db, SeqKey, 0) = MaxEmployeeNo
  /\ disk = db


\* C31: at every moment a candidate has at most one pending or running
\* createFromCandidate job.
C31_OneActiveJobPerCandidate ==
  \A id \in CandIds : Cardinality(ActiveFor(db, id)) <= 1

\* C32: two createFromCandidate jobs that execute at the same time, both
\* without a seeded employeeId, are never given the same generated id.
C32_GeneratedIdsDiffer ==
  \A i, j \in running :
    ( /\ i # j
      /\ db.jobs[i].type = "createFromCandidate"
      /\ db.jobs[j].type = "createFromCandidate"
      /\ exec[i].employeeId > 0
      /\ exec[j].employeeId > 0 )
      => exec[i].employeeId # exec[j].employeeId


(* ------------- the immediate offboarding and its fallbacks ------------ *)

\* the email and upn fields of a request: absent or present
Emails == {Undefined, StrVal("asha@example.com")}
Upns == {Undefined, StrVal("asha@tenant.example")}

\* an offboarding request without exit date, answered by a directory
\* whose lookups by email and UPN find somebody
OffboardFallback ==
  \E e \in EmployeeIds \cup {Undefined}, em \in Emails, up \in Upns,
     look \in FallbackLookups :
    OffboardTrigger(e, em, up, NoDate, look)

NextOffboardStrict ==
  \/ OffboardFallback
  \/ OffboardNow

SpecOffboardStrict == Init /\ [][NextOffboardStrict]_vars

\* C34: the immediate offboarding path touches a directory user only when
\* that user's employeeId is the request's; a user found by email or UPN is
\* used only when its employeeId matches, and a request for which no lookup
\* gives a matching user ends in 404 or 409 and changes nothing.
C34_ImmediateDisablesOnlyTheEmployee ==
  [][ /\ (offb' # offb /\ offb'.pc # "idle")
          => offb'.user = offb'.requested
      /\ \A e \in EmployeeIds, em \in Emails, up \in Upns,
            look \in FallbackLookups :
           LET matches(field, u) ==
                 ~Falsy(field) /\ u.found /\ u.employeeId = StringOf(e)
           IN OffboardTrigger(e, em, up, NoDate, look)
                => IF look.found = "user" \/ matches(em, look.byEmail)
                        \/ matches(up, look.byUpn)
                     THEN /\ offb'.pc = "revoke"
                          /\ offb'.requested = StringOf(e)
                   ELSE /\ http'.status \in {404, 409}
                        /\ offb' = offb /\ db' = db /\ disk' = disk ]_vars

C34_Witness ==
  /\ offb.foundBy \in {"email+eid", "upn+eid"}
  /\ ~offb.enabled
  /\ offb.user = "100"


(* ------------------ the scheduled disableUser handler ----------------- *)

\* getAzureAccessToken throws
DirectoryDown ==
  [found |-> "throws", groups |-> {}, manager |-> FALSE,
   byEmail |-> NoUser, byUpn |-> NoUser]

\* offboarding requests with email and upn, the directory unreachable for
\* the immediate branch
OffboardScheduled ==
  /\ \E e \in EmployeeIds, em \in Emails, up \in Upns, xd \in ExitDates :
       OffboardTrigger(e, em, up, xd, DirectoryDown)
  /\ Len(db'.jobs) <= MaxJobs

DisableResolve ==
  \E id \in running, look \in FallbackLookups : DisableResolveStep(id, look)

\* updateUser and the bookkeeping after the lookups
FinishResolved ==
  \E id \in running :
    /\ exec[id].outcome = "resolved"
    /\ \E o \in IF exec[id].user.found THEN {"disabled", "error"}
                                       ELSE {"notfound"} :
         ExecutorFinish(id, o)

\* the clock starts two steps before the exit instant of the later exit date
DisableStart == OffboardInstant(DateVal(6, 1, 1970)) - 2 * ClockStep
InitDisable ==
  /\ now = DisableStart
  /\ db = EmptyDb
  /\ disk = EmptyDb
  /\ diskOk = TRUE
  /\ faults = 0
  /\ running = {}
  /\ exec = [j \in {} |-> 0]
  /\ ticking = FALSE
  /\ http = NoHttp
  /\ backoff = NoBackoff
  /\ limiter = NoLimiter
  /\ offb = NoOffboard
  /\ call = NoCall
ClockDisable ==
  AdvanceClock /\ now' <= DisableStart + MaxClockSteps * ClockStep

NextDisable ==
  \/ ClockDisable
  \/ OffboardScheduled
  \/ Tick
  \/ DisableResolve
  \/ FinishResolved
  \/ Settle

SpecDisable == InitDisable /\ [][NextDisable]_vars

\* C33: the scheduled disableUser handler disables a directory user only if
\* that user's employeeId is the employeeId of the job payload, also when the
\* user was found by the email or UPN fallback.
C33_ScheduledDisablesOnlyTheEmployee ==
  \A id \in running :
    (db.jobs[id].type = "disableUser" /\ exec[id].outcome = "disabled")
      => exec[id].user.employeeId
           = StringOf(JsonGet(db.jobs[id].payload, "employeeId"))


(* ------------------- triggers that keep superseding ------------------- *)

\* For requests without a join date the code compares runAt, the cooldown
\* and Date.now() only by their differences, and neither the trigger's
\* findActiveJobByCandidate nor the tick's query reads a row that is
\* cancelled, done or failed.  Time is therefore measured from the present:
\* when half a clock step passes every instant of the store moves back by
\* it (instants in the past are kept just behind the present), and the rows
\* that have ended are left out once no handler is running.
StarveStep == ClockStep \div 2

Elapsed(d) ==
  LET floor == now - StarveStep
      back(t) == IF t - StarveStep < floor THEN floor ELSE t - StarveStep
      kept == IF running = {}
                THEN SelectSeq(d.jobs, LAMBDA j : j.status = "pending")
                ELSE d.jobs
  IN [jobs |-> [i \in DOMAIN kept |-> [kept[i] EXCEPT !.runAt = back(@)]],
      kv |-> [k \in KvKeys |->
                IF k # SeqKey /\ d.kv[k].present
                  THEN [d.kv[k] EXCEPT !.num = back(@)]
                  ELSE d.kv[k]]]

\* half a clock step passes; the scheduler's timer (every 5 s) has fired
\* before, so no due row is waiting for a free slot
ElapseCanAct ==
  /\ TickLoop(fetchDueJobs(db, now), 1, running, <<>>) = <<>>
  /\ (Elapsed(db) # db \/ http # NoHttp)

Elapse ==
  /\ ElapseCanAct
  /\ db' = Elapsed(db)
  /\ disk' = Elapsed(disk)
  /\ http' = NoHttp
  /\ UNCHANGED <<now, diskOk, faults, running, exec, ticking, backoff,
                 limiter, offb, call>>

\* a prehire trigger without join date for candidate "7", more than 60 s
\* after the trigger that scheduled any row still in the store
TriggerQuick ==
  /\ TickLoop(fetchDueJobs(db, now), 1, running, <<>>) = <<>>
  /\ \A i \in DOMAIN db.jobs :
       db.jobs[i].runAt - quickMins * MinuteMs + toleranceMs < now
  /\ PrehireTrigger(StrVal("7"), StrVal("Asha"), StrVal("Rao"), NoDate)
  /\ Len(db'.jobs) <= MaxJobs

NextStarve ==
  \/ Elapse
  \/ TriggerQuick
  \/ Tick
  \/ FinishCreated
  \/ Settle

\* time passes, the timer fires, handlers and their bookkeeping end
SpecStarve ==
  /\ Init /\ [][NextStarve]_vars
  /\ ([]<>(~ElapseCanAct) \/ []<><<Elapse>>_vars)
  /\ TickFairness
  /\ WF_vars(FinishCreated)
  /\ WF_vars(Settle)

\* C35: a candidate with a pending createFromCandidate job eventually has a
\* createFromCandidate job dispatched, also when prehire triggers computing
\* the quick fallback keep arriving more than 60 s apart.
C35_SupersedesDoNotStarve ==
  (\E i \in DOMAIN db.jobs : db.jobs[i].status = "pending")
    ~> (\E id \in running : db.jobs[id].type = "createFromCandidate")


\* C36: a prehire trigger answered with cooldown_active or already_scheduled
\* leaves every job row and every KV entry as they were, in memory and on
\* disk; a trigger during cooldown cancels no active job.
C36_SuppressedTriggerChangesNothing ==
  [][ \A r \in PrehireRequests :
        ( /\ PrehireTrigger(r[1], r[2], r[3], r[4])
          /\ http'.message \in {"cooldown_active", "already_scheduled"} )
          => /\ db' = db
             /\ disk' = disk ]_vars

C36_Witness ==
  /\ http.message = "cooldown_active"
  /\ \E i \in DOMAIN db.jobs :
       /\ db.jobs[i].status \in {"pending", "running"}
       /\ StringOf(JsonGet(db.jobs[i].payload, "candidateId"))
            = StringOf(http.candidateId)


(* ------------------------- rejected requests -------------------------- *)

\* offboarding requests for a user without memberships and manager
PlainLookups == {u \in DirectoryLookups : u.groups = {} /\ ~u.manager}
OffboardPlain ==
  /\ \E e \in EmployeeIds \cup {Undefined}, xd \in ExitDates,
        u \in PlainLookups :
        OffboardTrigger(e, Undefined, Undefined, xd, u)
  /\ Len(db'.jobs) <= MaxJobs

\* both webhooks and the directory calls of the immediate offboarding
NextWebhooks ==
  \/ Clock
  \/ Prehire
  \/ OffboardPlain
  \/ OffboardNow

SpecWebhooks == Init /\ [][NextWebhooks]_vars

\* C37: a prehire trigger without candidate id, firstname or lastname and an
\* offboarding trigger without employeeId are answered with status 400 and
\* change no job row, no KV entry and nothing in the directory.
C37_RejectedRequestChangesNothing ==
  [][ /\ \A r \in PrehireRequests :
           ( /\ PrehireTrigger(r[1], r[2], r[3], r[4])
             /\ (r[1] = Undefined \/ r[2] = Undefined \/ r[3] = Undefined) )
             => /\ http'.status = 400
                /\ db' = db /\ disk' = disk /\ offb' = offb
      /\ \A xd \in ExitDates, u \in PlainLookups :
           OffboardTrigger(Undefined, Undefined, Undefined, xd, u)
             => /\ http'.status = 400
                /\ db' = db /\ disk' = disk /\ offb' = offb ]_vars

C37_Witness ==
  /\ http.status = 400
  /\ Len(db.jobs) > 0
  /\ offb.pc \notin {"idle", "done"}


\* repeated offboarding requests for one employee, with the scheduler and
\* the handlers of the rows that fall due
OffboardAgain ==
  /\ \E e \in EmployeeIds, em \in Emails, xd \in ExitDates :
       OffboardTrigger(e, em, Undefined, xd, DirectoryDown)
  /\ Len(db'.jobs) <= MaxJobs

NextOffboardRows ==
  \/ ClockDisable
  \/ OffboardAgain
  \/ Tick
  \/ Finish
  \/ Settle

SpecOffboardRows == InitDisable /\ [][NextOffboardRows]_vars

\* C38: offboarding scheduling applies neither dedup nor cooldown: every
\* future-dated offboarding trigger appends one pending disableUser row due
\* at the exit instant and leaves the earlier rows and the KV entries as they
\* were, whatever rows the employee already has.
C38_OffboardingAlwaysInserts ==
  [][ \A e \in EmployeeIds, em \in Emails, xd \in ExitDates :
        ( /\ OffboardTrigger(e, em, Undefined, xd, DirectoryDown)
          /\ OffboardInstant(xd) > now )
          => /\ Len(db'.jobs) = Len(db.jobs) + 1
             /\ SubSeq(db'.jobs, 1, Len(db.jobs)) = db.jobs
             /\ db'.jobs[Len(db'.jobs)].type = "disableUser"
             /\ db'.jobs[Len(db'.jobs)].status = "pending"
             /\ db'.jobs[Len(db'.jobs)].runAt = OffboardInstant(xd)
             /\ db'.kv = db.kv ]_vars

C38_Witness ==
  /\ Len(db.jobs) >= 2
  /\ \A i \in 1..2 :
       /\ db.jobs[i].type = "disableUser"
       /\ db.jobs[i].status = "pending"
       /\ db.jobs[i].payload = db.jobs[1].payload
       /\ db.jobs[i].runAt = db.jobs[1].runAt


(* ----------------------- the retrying axios call ---------------------- *)

\* defaults of attachRetry's options
defaultRetries == 3
defaultBaseDelayMs == 300
defaultMaxDelayMs == 5000
defaultMethods == {"get", "head", "options", "put", "delete", "patch"}
RetryCodes == {"ECONNABORTED", "ECONNRESET", "EAI_AGAIN", "ETIMEDOUT"}

\* cfg.method as callers write it; "" stands for a config without method
Methods == {"", "get", "GET", "post", "POST", "put", "delete", "PATCH"}

\* (cfg.method || 'get').toLowerCase()
LowerMethod(method) ==
  CASE method = "" -> "get"
    [] method = "GET" -> "get"
    [] method = "POST" -> "post"
    [] method = "PATCH" -> "patch"
    [] OTHER -> method

\* what a request can end in: an error carrying a response, or one carrying
\* a code only; config tells whether error.config is set
HttpError(s) == [config |-> TRUE, response |-> TRUE, status |-> s, code |-> ""]
NetError(c) == [config |-> TRUE, response |-> FALSE, status |-> 0, code |-> c]
CallErrors ==
  {HttpError(s) : s \in {400, 404, 429, 499, 500, 503, 599, 600}}
    \cup {NetError(c) : c \in RetryCodes \cup {"ENOTFOUND", ""}}
    \cup {[config |-> FALSE, response |-> FALSE, status |-> 0, code |-> ""]}

\* Math.floor(Math.random() * 100)
RetryJitterDraws == {0, 42, 99}

\* a predicate that ignores the method
shouldRetry_AnyMethod(error, method) ==
  IF error.response
    THEN (error.status >= 500 /\ error.status <= 599) \/ error.status = 429
    ELSE error.code \in RetryCodes

shouldRetry(error, method) ==
  IF LowerMethod(method) \notin defaultMethods THEN FALSE
  ELSE IF error.response
    THEN (error.status >= 500 /\ error.status <= 599) \/ error.status = 429
  ELSE error.code \in RetryCodes

retryDelay(attempt, baseDelayMs, maxDelayMs, draw) ==
  Min(baseDelayMs * Pow(2, attempt - 1), maxDelayMs) + draw

\* attachRetry(axios, opts) and the request a caller is about to make
InitCall ==
  /\ now = StartTime
  /\ db = EmptyDb
  /\ disk = EmptyDb
  /\ diskOk = TRUE
  /\ faults = 0
  /\ running = {}
  /\ exec = [j \in {} |-> 0]
  /\ ticking = FALSE
  /\ http = NoHttp
  /\ backoff = NoBackoff
  /\ limiter = NoLimiter
  /\ offb = NoOffboard
  /\ \E m \in Methods, r \in {0, 1, defaultRetries},
        b \in {defaultBaseDelayMs, 2000} :
       call = [NoCall EXCEPT !.method = m, !.retries = r,
                             !.baseDelayMs = b,
                             !.maxDelayMs = defaultMaxDelayMs]

\* axiosInstance.request(cfg) by the caller
CallRequest ==
  /\ call.pc = "idle"
  /\ call' = [call EXCEPT !.pc = "sent", !.sends = 1]
  /\ UNCHANGED <<now, db, disk, diskOk, faults, running, exec, ticking, http,
                 backoff, limiter, offb>>

\* (res) => res
CallSucceeds ==
  /\ call.pc = "sent"
  /\ call' = [call EXCEPT !.pc = "done"]
  /\ UNCHANGED <<now, db, disk, diskOk, faults, running, exec, ticking, http,
                 backoff, limiter, offb>>

\* the rejection handler of the interceptor, up to sleep(delay)
CallFails(error, draw) ==
  LET attempt == call.retryCount + 1
  IN /\ call.pc = "sent"
     /\ call' =
          IF ~error.config
            THEN [call EXCEPT !.pc = "failed", !.error = error]
          ELSE IF attempt > call.retries \/ ~shouldRetry(error, call.method)
            THEN [call EXCEPT !.pc = "failed", !.error = error,
                              !.retryCount = attempt]
          ELSE [call EXCEPT !.pc = "sleeping", !.error = error,
                            !.retryCount = attempt,
                            !.delay = retryDelay(attempt, call.baseDelayMs,
                                                 call.maxDelayMs, draw)]
     /\ UNCHANGED <<now, db, disk, diskOk, faults, running, exec, ticking,
                    http, backoff, limiter, offb>>

\* the sleep is over: return axiosInstance.request(cfg)
CallResend ==
  /\ call.pc = "sleeping"
  /\ call' = [call EXCEPT !.pc = "sent", !.sends = @ + 1]
  /\ UNCHANGED <<now, db, disk, diskOk, faults, running, exec, ticking, http,
                 backoff, limiter, offb>>

CallFailure == \E e \in CallErrors, u \in RetryJitterDraws : CallFails(e, u)

NextRetry ==
  \/ CallRequest
  \/ CallSucceeds
  \/ CallFailure
  \/ CallResend

SpecRetry == InitCall /\ [][NextRetry]_vars

\* C39: with attachRetry installed one request is sent at most retries + 1
\* times; it is sent again only after a 5xx or 429 response or one of the
\* four network error codes, and only for the methods of the list, never for
\* a POST; the wait before the n-th re-send is
\* min(baseDelayMs * 2^(n-1), maxDelayMs) plus 0..99 ms.
C39_RetryIsBounded ==
  [][ (call'.sends > call.sends /\ call.sends >= 1)
        => /\ call'.sends = call.sends + 1
           /\ call'.sends <= call.retries + 1
           /\ \/ /\ call.error.response
                 /\ call.error.status \in (500..599) \cup {429}
              \/ /\ ~call.error.response
                 /\ call.error.code \in {"ECONNABORTED", "ECONNRESET",
                                         "EAI_AGAIN", "ETIMEDOUT"}
           /\ call.method \in {"", "get", "GET", "put", "delete", "PATCH"}
           /\ call.method \notin {"post", "POST"}
           /\ LET n == call.sends
                  exp == IF call.baseDelayMs * Pow(2, n - 1) < call.maxDelayMs
                           THEN call.baseDelayMs * Pow(2, n - 1)
                           ELSE call.maxDelayMs
              IN call.delay - exp \in 0..99 ]_vars

C39_Witness ==
  /\ call.sends = call.retries + 1
  /\ call.retries = defaultRetries
  /\ call.delay >= defaultMaxDelayMs
  /\ call.pc = "failed"

====
